---- MODULE Spec2Model ----
(***************************************************************************)
(* A model of dslash: the command registry of CommandClient, the          *)
(* registration synchronizer run by login(), the command tree with its    *)
(* dump() and invocation routing, and parameter coercion.                  *)
(*                                                                         *)
(* Python values are modelled as follows.  None is the string "None" for   *)
(* guild ids and scopes and NoId for a command id.  A dict is a sequence   *)
(* of <<key, value>> pairs in insertion order.  An object is an index      *)
(* into the heap `nodes`, so that identity is equality of indices.  A      *)
(* string that the code scans or parses is a sequence of one-character     *)
(* strings.                                                                *)
(***************************************************************************)
EXTENDS Integers, Sequences, FiniteSets, TLC

VARIABLES
    guild_id,       \* CommandClient.guild_id, the default scope
    nodes,          \* heap of command nodes
    commands,       \* CommandClient._commands
    by_id,          \* CommandClient._commands_by_id
    task,           \* one record per login() coroutine
    remote,         \* ids the remote API assigned: <<scope, name>> -> id string
    calls,          \* requests sent to the remote API, in order
    responses,      \* successful bulk upsert results delivered, per task
    delivered,      \* the HTTP error delivered to a task, if any
    custom_interaction, \* CommandClient.custom_interaction
    inbox,          \* the interaction delivered and not yet handled, if any
    trace,          \* what on_interaction did with the last interaction
    dumps,          \* the dump() calls made so far: the node and the schema returned
    failure,        \* the HTTP error and the batch given to _handle_register_error
    raised,         \* the exceptions _handle_register_error may have raised for it
    ready,          \* the client's ready event, which wait_until_ready awaits
    declarations,   \* the guild_id argument each top-level node was declared with
    inv,            \* the on_interaction coroutines under way, one record each
    described,      \* the parameter processed into a descriptor, and its dump
    choice_classes, \* the Choices classes declared, and what the metaclass made of them
    decorated       \* the permission setters made, their list objects, and the commands they were applied to

syncVars == <<guild_id, nodes, commands, by_id, task, remote, calls, responses, delivered>>
invokeVars == <<custom_interaction, inbox, trace>>
dumpVars == <<dumps>>
rewriteVars == <<failure, raised>>
startVars == <<ready>>
declVars == <<declarations>>
reentrantVars == <<inv>>
descVars == <<described, choice_classes, decorated>>
extraVars == <<startVars, declVars, reentrantVars, descVars>>
nonSyncVars == <<invokeVars, dumpVars, rewriteVars, extraVars>>

vars == <<syncVars, nonSyncVars>>

(***************************************************************************)
(* Bounds of the model.                                                    *)
(***************************************************************************)
MaxDecl == 2
MaxOptions == 2
MaxDumps == 2
MaxBatch == 13
MaxInvocations == 2
MaxTree == 3
MaxAttrs == 2
MaxChoices == 2
MaxApplied == 3

TaskOrder == <<"t1", "t2">>
Tasks == {TaskOrder[i] : i \in 1..Len(TaskOrder)}
Guilds == {"g1"}
CommandNames == {"ping", "echo"}

(***************************************************************************)
(* Ordered dicts.                                                          *)
(***************************************************************************)
HasKey(d, k) == \E i \in 1..Len(d) : d[i][1] = k
KeyIndex(d, k) == CHOOSE i \in 1..Len(d) : d[i][1] = k
Get(d, k) == d[KeyIndex(d, k)][2]
GetOr(d, k, default) == IF HasKey(d, k) THEN Get(d, k) ELSE default
Put(d, k, v) ==
    IF HasKey(d, k) THEN [d EXCEPT ![KeyIndex(d, k)] = <<k, v>>]
    ELSE Append(d, <<k, v>>)
Keys(d) == [i \in 1..Len(d) |-> d[i][1]]
Values(d) == [i \in 1..Len(d) |-> d[i][2]]
Range(s) == {s[i] : i \in 1..Len(s)}

(***************************************************************************)
(* int() of a decimal string.                                              *)
(***************************************************************************)
Digits == {"0", "1", "2", "3", "4", "5", "6", "7", "8", "9"}
DigitChar == <<"0", "1", "2", "3", "4", "5", "6", "7", "8", "9">>
DigitValue(c) == (CHOOSE i \in 1..10 : DigitChar[i] = c) - 1

RECURSIVE PyInt(_)
PyInt(s) ==
    IF Len(s) = 0 THEN 0
    ELSE 10 * PyInt(SubSeq(s, 1, Len(s) - 1)) + DigitValue(s[Len(s)])

NoId == 0

(***************************************************************************)
(* options.py: the wire type codes and CommandOption.                      *)
(***************************************************************************)
ApplicationCommandOptionType ==
    [sub_command |-> 1, sub_command_group |-> 2, string |-> 3, integer |-> 4,
     boolean |-> 5, user |-> 6, channel |-> 7, role |-> 8, mentionable |-> 9,
     number |-> 10]

\* type_value raising TypeError: no type code
NoTypeCode == 0

\* the annotations that are typing.Union objects and no classes; Mentionable
\* is Union[User, Member, Role] and Optional[T] is Union[T, None]
UnionTypes == {"Mentionable", "Optional[int]", "Optional[User]", "Union[int, str]"}

\* CommandOption.type_value of a typing.Union object: issubclass(self.type,
\* str), the first test made, raises "TypeError: issubclass() arg 1 must be a
\* class", so the test of typing.get_origin further down is never reached
type_valueOfUnion(type) == NoTypeCode

\* CommandOption.type_value.  A Python type is named by a string; bool is a
\* subclass of int, so the bool test comes first, as in the code.
type_value(type) ==
    CASE type = "None" \/ type = "str" -> ApplicationCommandOptionType.string
      [] type \in UnionTypes -> type_valueOfUnion(type)
      [] type = "bool" -> ApplicationCommandOptionType.boolean
      [] type = "int" -> ApplicationCommandOptionType.integer
      [] type = "float" -> ApplicationCommandOptionType.number
      [] type \in {"User", "Member", "abc.User"} -> ApplicationCommandOptionType.user
      [] type \in {"TextChannel", "VoiceChannel", "CategoryChannel", "GuildChannel"} ->
            ApplicationCommandOptionType.channel
      [] type = "Role" -> ApplicationCommandOptionType.role
      [] OTHER -> NoTypeCode

\* CommandOption.dump
OptionDump(option) ==
    [name |-> option.name, description |-> option.description,
     required |-> option.required, type |-> type_value(option.type),
     choices |-> option.choices]

(***************************************************************************)
(* Python values: a kind, the characters of a str/int/float/bool value,    *)
(* and the id of a resolved guild object.                                  *)
(***************************************************************************)
Value(kind, chars) == [kind |-> kind, v |-> chars, n |-> 0]
Object(kind, id) == [kind |-> kind, v |-> <<>>, n |-> id]
None == Value("None", <<>>)

\* isinstance(value, type) for the scalar types; bool is a subclass of int
IsInstance(value, type) == value.kind = type \/ (type = "int" /\ value.kind = "bool")

\* CommandOption.__init__; a TypeError for choices on a type that is no
\* subclass of int or str, or of a value that is no instance of the type
CommandOption(description, name, argument_name, type, choices, required) ==
    IF choices # <<>> /\ type \notin {"int", "bool", "str"}
    THEN [cls |-> "TypeError"]
    ELSE IF choices # <<>> /\ \E i \in 1..Len(choices) : ~IsInstance(choices[i][2], type)
    THEN [cls |-> "TypeError"]
    ELSE [cls |-> "CommandOption", description |-> description, name |-> name,
          argument_name |-> argument_name, type |-> type,
          choices |-> [i \in 1..Len(choices) |->
                          [name |-> choices[i][1], value |-> choices[i][2]]],
          required |-> required]

\* option(description, required, choices, name=, type=): a PartialCommandOption
option(description, required, choices, name, type) ==
    [description |-> description, name |-> name, type |-> type,
     choices |-> choices, required |-> required]

\* PartialCommandOption.fallbacks
fallbacks(partial, name, type) ==
    CommandOption(partial.description,
                  IF partial.name # "None" THEN partial.name ELSE name,
                  name,
                  IF partial.type # "None" THEN partial.type
                  ELSE IF type # "None" THEN type ELSE "str",
                  partial.choices, partial.required)

\* exceptions: a class and an identity; a SlashCommandInvokeError also
\* carries the exception it wraps
Exc(cls, uid) == [cls |-> cls, uid |-> uid]
NoExc == Exc("None", "None")
SlashCommandInvokeError(original) ==
    [cls |-> "SlashCommandInvokeError", uid |-> "new", original |-> original]

ScalarTypes ==
    {ApplicationCommandOptionType.string, ApplicationCommandOptionType.boolean,
     ApplicationCommandOptionType.integer, ApplicationCommandOptionType.number}

Lookup(op, id) == [op |-> op, id |-> id]
Resolved(value, lookups) == [value |-> value, exc |-> NoExc, lookups |-> lookups]
Failed(exc, lookups) == [value |-> None, exc |-> exc, lookups |-> lookups]

\* guild.get_role / get_member / get_channel: the cached object or None
GuildGet(guild, cache, kind, id) == IF id \in guild[cache] THEN Object(kind, id) ELSE None

\* a member resolved over the network without a look at the cache
ResolveUserAlwaysFetch(guild, id, before) ==
    IF id \in guild.fetchable
    THEN Resolved(Object("Member", id), before \o <<Lookup("fetch_member", id)>>)
    ELSE Failed(Exc("NotFound", "fetch"), before \o <<Lookup("fetch_member", id)>>)

\* the tail of CommandOption.__call__ for the user and mentionable types:
\* the cached member, or the member fetched over the network
ResolveUser(guild, id, before) ==
    IF id \in guild.members
    THEN Resolved(Object("Member", id), before \o <<Lookup("get_member", id)>>)
    ELSE IF id \in guild.fetchable
    THEN Resolved(Object("Member", id),
                  before \o <<Lookup("get_member", id), Lookup("fetch_member", id)>>)
    ELSE Failed(Exc("NotFound", "fetch"),
                before \o <<Lookup("get_member", id), Lookup("fetch_member", id)>>)

\* CommandOption.__call__ past the guild test: the lookups by type
ResolveInGuild(type, id, guild) ==
    IF type = ApplicationCommandOptionType.mentionable /\ id \in guild.roles
    THEN Resolved(Object("Role", id), <<Lookup("get_role", id)>>)
    ELSE IF type = ApplicationCommandOptionType.mentionable
    THEN ResolveUser(guild, id, <<Lookup("get_role", id)>>)
    ELSE IF type = ApplicationCommandOptionType.user
    THEN ResolveUser(guild, id, <<>>)
    ELSE IF type = ApplicationCommandOptionType.role
    THEN Resolved(GuildGet(guild, "roles", "Role", id), <<Lookup("get_role", id)>>)
    ELSE IF type = ApplicationCommandOptionType.channel
    THEN Resolved(GuildGet(guild, "channels", "Channel", id),
                  <<Lookup("get_channel", id)>>)
    ELSE Resolved(None, <<>>)

\* a CommandOption.__call__ without the guild test
CoercePresentUnguarded(data, guild) ==
    IF data.type \in ScalarTypes THEN Resolved(data.value, <<>>)
    ELSE ResolveInGuild(data.type, PyInt(data.value.v), guild)

\* CommandOption.__call__ once data["value"] is known to be present
CoercePresent(data, guild) ==
    IF data.type \in ScalarTypes THEN Resolved(data.value, <<>>)
    ELSE IF ~guild.present THEN Failed(Exc("ValueError", "no_guild"), <<>>)
    ELSE ResolveInGuild(data.type, PyInt(data.value.v), guild)

\* bool() of a raw value
Falsy(value) == value.v \in {<<>>, <<"0">>, <<"F">>}

\* CommandOption.__call__ testing `not data.get("value")`
OptionCallTruthy(self, data, guild) ==
    IF DOMAIN data = {} \/ "value" \notin DOMAIN data THEN Resolved(None, <<>>)
    ELSE IF Falsy(data.value) THEN Resolved(None, <<>>)
    ELSE CoercePresent(data, guild)

\* CommandOption.__call__(data, guild); data is <<>> when it is None
OptionCall(self, data, guild) ==
    IF DOMAIN data = {} \/ "value" \notin DOMAIN data THEN Resolved(None, <<>>)
    ELSE CoercePresent(data, guild)

(***************************************************************************)
(* commands.py: the command nodes and dump().                              *)
(***************************************************************************)
Callables == {"SlashCommand", "SlashSubCommand"}
Containers == {"SlashCommandGroup", "SlashCommandSubGroup"}
TopLevels == {"SlashCommand", "SlashCommandGroup"}

\* data.get("options", []) in _add_dump_data: a fresh list unless data has one
DataOptions(data) == IF "options" \in DOMAIN data THEN data.options ELSE <<>>

WithKey(data, k, v) == [x \in DOMAIN data \cup {k} |-> IF x = k THEN v ELSE data[x]]

\* CallableSlashCommand._add_dump_data
CallableAddDumpData(n, data) ==
    WithKey(data, "options",
            DataOptions(data) \o [i \in 1..Len(n.options) |-> OptionDump(n.options[i][2])])

\* a TopLevelCommand._add_dump_data that tags the schema as a sub-command
TopLevelAddDumpDataTagged(n, data) ==
    WithKey(WithKey(data, "default_permission", n.default_permission), "type",
            ApplicationCommandOptionType.sub_command)

\* TopLevelCommand._add_dump_data
TopLevelAddDumpData(n, data) == WithKey(data, "default_permission", n.default_permission)

RECURSIVE dump(_, _)

\* ContainerSlashCommand._add_dump_data
ContainerAddDumpData(ns, n, data) ==
    WithKey(data, "options",
            DataOptions(data) \o [i \in 1..Len(n.subcommands) |-> dump(ns, n.subcommands[i][2])])

\* the _add_dump_data of the four concrete classes
AddDumpData(ns, n, data) ==
    CASE n.cls = "SlashCommand" -> TopLevelAddDumpData(n, CallableAddDumpData(n, data))
      [] n.cls = "SlashCommandGroup" -> ContainerAddDumpData(ns, n, TopLevelAddDumpData(n, data))
      [] n.cls = "SlashCommandSubGroup" ->
            WithKey(ContainerAddDumpData(ns, n, data), "type",
                    ApplicationCommandOptionType.sub_command_group)
      [] n.cls = "SlashSubCommand" ->
            WithKey(CallableAddDumpData(n, data), "type",
                    ApplicationCommandOptionType.sub_command)

\* BaseSlashCommand.dump
dump(ns, ref) ==
    AddDumpData(ns, ns[ref], [name |-> ns[ref].name, description |-> ns[ref].description])

\* a dump() that fills and returns a dict it keeps on the node
DumpCallKept(ns, ref) ==
    LET n == ns[ref]
        kept == IF "_data" \in DOMAIN n THEN n._data
                ELSE [name |-> n.name, description |-> n.description]
        data == AddDumpData(ns, n, kept)
    IN [data |-> data, nodes |-> [ns EXCEPT ![ref] = WithKey(n, "_data", data)]]

\* a call of BaseSlashCommand.dump: the dict it returns and the heap it
\* leaves; it assigns to the new dict only, never to self
DumpCall(ns, ref) == [data |-> dump(ns, ref), nodes |-> ns]

(***************************************************************************)
(* permissions.py: a GuildPermissionsSetter and its application.           *)
(***************************************************************************)
ApplicationCommandPermissionType == [role |-> 1, user |-> 2]

\* _dump_permissions for role ids mapped to one value
DumpRolePermissions(role_ids, value) ==
    [i \in 1..Len(role_ids) |->
        [id |-> role_ids[i], type |-> ApplicationCommandPermissionType.role,
         permission |-> value]]

\* allow_roles(*role_ids, guild_id=...)
allow_roles(role_ids, gid) ==
    [guild_id |-> gid, permissions |-> DumpRolePermissions(role_ids, TRUE)]

\* _update_permissions(dest, source): extend rather than overwrite
update_permissions(dest, source) ==
    LET RECURSIVE Upd(_, _)
        Upd(d, i) ==
            IF i > Len(source) THEN d
            ELSE LET g == source[i][1]
                     p == source[i][2]
                 IN Upd(IF HasKey(d, g) THEN Put(d, g, Get(d, g) \o p) ELSE Put(d, g, p), i + 1)
    IN Upd(dest, 1)

\* GuildPermissionsSetter._apply_permissions: the guild the overrides go to
SetterGuild(setter, command) ==
    IF setter.guild_id # "None" THEN setter.guild_id ELSE command.guild_id

\* PermissionsSetter.__call__ on a top-level command; a TypeError when the
\* command is global and the setter names no guild
ApplyPermissions(setter, command) ==
    IF SetterGuild(setter, command) = "None" THEN [cls |-> "TypeError"]
    ELSE [command EXCEPT !.permissions =
            update_permissions(@, <<<<SetterGuild(setter, command), setter.permissions>>>>)]

\* the setters of the model, each made by one call:
\*   s1 = allow_roles(7), s2 = allow_roles(8, guild_id=g1),
\*   s3 = global_permissions({g1: {9: True}}, {})
SetterNames == {"s1", "s2", "s3"}
SetterMenu ==
    [s \in SetterNames |->
        CASE s = "s1" -> [cls |-> "GuildPermissionsSetter", guild_id |-> "None",
                          made |-> DumpRolePermissions(<<7>>, TRUE)]
          [] s = "s2" -> [cls |-> "GuildPermissionsSetter", guild_id |-> "g1",
                          made |-> DumpRolePermissions(<<8>>, TRUE)]
          [] OTHER    -> [cls |-> "AllPermissionsSetter", guild_id |-> "g1",
                          made |-> DumpRolePermissions(<<9>>, TRUE)]]

\* no setter made, no command to apply one to
Undecorated == [lists |-> <<>>, targets |-> <<>>, result |-> "None"]

\* _update_permissions(dest, source) on list objects: lists maps each list
\* object to its contents, dest and source map a guild to a list object.
\* extend changes the object dest holds; the assignment stores source's object
UpdateSharedPermissions(lists, dest, source) ==
    LET RECURSIVE Upd(_, _, _)
        Upd(ls, d, i) ==
            IF i > Len(source) THEN [lists |-> ls, dest |-> d]
            ELSE LET g == source[i][1]
                     p == source[i][2]
                 IN IF HasKey(d, g)
                    THEN Upd(Put(ls, Get(d, g), Get(ls, Get(d, g)) \o Get(ls, p)), d, i + 1)
                    ELSE Upd(ls, Put(d, g, p), i + 1)
    IN Upd(lists, dest, 1)

(***************************************************************************)
(* commands.py: construction of nodes.                                     *)
(***************************************************************************)
\* the fields every node record carries; a class leaves unused ones empty
BaseNode(cls, name, description) ==
    [cls |-> cls, name |-> name, description |-> description,
     callback |-> "None", options |-> <<>>, prepend_params |-> <<>>,
     subcommands |-> <<>>, guild_id |-> "None", default_permission |-> TRUE,
     permissions |-> <<>>, id |-> NoId]

\* a TopLevelCommand.__init__ that starts the id at a number
TopLevelInitNumbered(n, gid, default_permission, permissions) ==
    LET n0 == [n EXCEPT !.guild_id = gid, !.default_permission = default_permission,
                        !.permissions = <<>>]
        RECURSIVE Apply(_, _)
        Apply(c, i) ==
            IF c.cls = "TypeError" \/ i > Len(permissions) THEN c
            ELSE Apply(ApplyPermissions(permissions[i], c), i + 1)
        n1 == Apply(n0, 1)
    IN IF n1.cls = "TypeError" THEN n1 ELSE [n1 EXCEPT !.id = 1]

\* TopLevelCommand.__init__ : scope, default permission, overrides, id = None
TopLevelInit(n, gid, default_permission, permissions) ==
    LET n0 == [n EXCEPT !.guild_id = gid, !.default_permission = default_permission,
                        !.permissions = <<>>]
        RECURSIVE Apply(_, _)
        Apply(c, i) ==
            IF c.cls = "TypeError" \/ i > Len(permissions) THEN c
            ELSE Apply(ApplyPermissions(permissions[i], c), i + 1)
        n1 == Apply(n0, 1)
    IN IF n1.cls = "TypeError" THEN n1 ELSE [n1 EXCEPT !.id = NoId]

\* CallableSlashCommand._process_option for one parameter of the callback:
\* the descriptor comes from the option declaration attached to the parameter
ProcessOption(parameter) ==
    <<parameter.name, fallbacks(parameter.default, parameter.name, parameter.annotation)>>

\* CallableSlashCommand._process_options: self.options[parameter.name] = ...
RECURSIVE ProcessOptions(_, _, _)
ProcessOptions(parameters, i, options) ==
    IF i > Len(parameters) THEN options
    ELSE ProcessOptions(parameters, i + 1,
                        Put(options, ProcessOption(parameters[i])[1],
                            ProcessOption(parameters[i])[2]))

\* CallableSlashCommand._process_callback: name and description fall back to
\* the callback's name and to "No description."
ProcessCallback(n, parameters) ==
    [n EXCEPT !.name = IF n.name = "None" THEN n.callback ELSE n.name,
              !.description = IF n.description = "None" THEN "No description."
                              ELSE n.description,
              !.options = ProcessOptions(parameters, 1, <<>>)]

\* SlashCommand.__init__
NewSlashCommand(callback, name, description, parameters, gid, default_permission, permissions) ==
    TopLevelInit(ProcessCallback([BaseNode("SlashCommand", name, description) EXCEPT
                                     !.callback = callback], parameters),
                 gid, default_permission, permissions)

\* SlashSubCommand.__init__
NewSlashSubCommand(callback, name, description, parameters) ==
    ProcessCallback([BaseNode("SlashSubCommand", name, description) EXCEPT
                        !.callback = callback], parameters)

\* SlashCommandSubGroup.__init__
NewSlashCommandSubGroup(name, description) ==
    BaseNode("SlashCommandSubGroup", name, description)

\* SlashCommandGroup.__init__
NewSlashCommandGroup(name, description, gid, default_permission, permissions) ==
    TopLevelInit(BaseNode("SlashCommandGroup", name, description),
                 gid, default_permission, permissions)

\* SlashSubCommandConstructor.register: parent.subcommands[command.name] = command
Register(ns, parent, command) ==
    [ns EXCEPT ![parent].subcommands = Put(@, ns[command].name, command)]

\* the loop of BaseCommandGroupMeta.__new__ over the class attributes that
\* are nodes: a sub-command gets the singleton instance prepended, and every
\* child node is stored under its name
RECURSIVE GroupMetaNew(_, _, _, _)
GroupMetaNew(ns, group, attrs, i) ==
    IF i > Len(attrs) THEN ns
    ELSE LET attr == attrs[i]
             ns1 == IF ns[attr].cls = "SlashSubCommand"
                    THEN [ns EXCEPT ![attr].prepend_params = <<"instance">>]
                    ELSE ns
         IN IF ns[attr].cls \notin {"SlashSubCommand", "SlashCommandSubGroup"}
            THEN GroupMetaNew(ns, group, attrs, i + 1)
            ELSE GroupMetaNew([ns1 EXCEPT ![group].subcommands = Put(@, ns1[attr].name, attr)],
                              group, attrs, i + 1)

(***************************************************************************)
(* client.py: the registry.                                                *)
(***************************************************************************)
GUILD_ID_DEFAULT == "default"

\* a _store_command that keeps a list of the commands of a scope
StoreCommandListed(cmds, ns, ref) ==
    Put(cmds, ns[ref].guild_id,
        Append(GetOr(cmds, ns[ref].guild_id, <<>>), <<ns[ref].name, ref>>))

\* CommandClient._store_command; _commands is a defaultdict(dict)
StoreCommand(cmds, ns, ref) ==
    Put(cmds, ns[ref].guild_id,
        Put(GetOr(cmds, ns[ref].guild_id, <<>>), ns[ref].name, ref))

\* a CommandClient.command that takes `guild_id or self.guild_id`
CommandGuildFalsy(gid) == IF gid \in {GUILD_ID_DEFAULT, "None"} THEN guild_id ELSE gid

\* CommandClient.group: the default guild id of the group is replaced by the
\* client's, and the group is stored
ClientGroup(cmds, ns, ref) ==
    LET ns1 == IF ns[ref].guild_id = GUILD_ID_DEFAULT
               THEN [ns EXCEPT ![ref].guild_id = guild_id]
               ELSE ns
    IN [nodes |-> ns1, commands |-> StoreCommand(cmds, ns1, ref)]

\* the guild id CommandClient.command hands to the constructor
CommandGuild(gid) == IF gid = GUILD_ID_DEFAULT THEN guild_id ELSE gid

(***************************************************************************)
(* client.py: _handle_register_error.                                      *)
(***************************************************************************)
\* the characters of the command names of the model
BatchNames ==
    <<"ca", "cb", "cc", "cd", "ce", "cf", "cg", "ch", "ci", "cj", "ck", "cl", "cm", "cn",
      "co", "cp">>
Letters ==
    <<"a", "b", "c", "d", "e", "f", "g", "h", "i", "j", "k", "l", "m", "n", "o", "p">>

\* the characters of the command names of the model
NameChars ==
    [name \in {"ping", "echo", "g", "bad cmd"} \cup Range(BatchNames) |->
        CASE name = "ping" -> <<"p", "i", "n", "g">>
          [] name = "echo" -> <<"e", "c", "h", "o">>
          [] name = "g" -> <<"g">>
          [] name = "bad cmd" -> <<"b", "a", "d", " ", "c", "m", "d">>
          [] OTHER -> <<"c", Letters[CHOOSE i \in 1..Len(BatchNames) : BatchNames[i] = name]>>]
Chars(name) == NameChars[name]

Whitespace == {" ", "\n", "\t"}

\* re.findall(r"In\s(\d).", s): the digit captured by each match, matches
\* taken left to right without overlap; "." matches anything but a newline
RECURSIVE FindIndices(_, _)
FindIndices(s, i) ==
    IF i + 4 > Len(s) THEN <<>>
    ELSE IF /\ s[i] = "I" /\ s[i + 1] = "n" /\ s[i + 2] \in Whitespace
            /\ s[i + 3] \in Digits /\ s[i + 4] # "\n"
         THEN <<s[i + 3]>> \o FindIndices(s, i + 5)
         ELSE FindIndices(s, i + 1)

\* str.replace(old, new): every non-overlapping occurrence, left to right
RECURSIVE Replace(_, _, _)
Replace(s, old, new) ==
    IF Len(s) < Len(old) THEN s
    ELSE IF SubSeq(s, 1, Len(old)) = old
         THEN new \o Replace(SubSeq(s, Len(old) + 1, Len(s)), old, new)
         ELSE <<s[1]>> \o Replace(Tail(s), old, new)

\* the orders in which a Python set may be iterated
RECURSIVE Orders(_)
Orders(S) ==
    IF S = {} THEN {<<>>}
    ELSE UNION {{<<x>> \o o : o \in Orders(S \ {x})} : x \in S}

IndexErrorMark == <<"IndexError">>

\* the loop over command_indices, taken in the given order
RECURSIVE RewriteIndices(_, _, _)
RewriteIndices(error_string, order, cmds) ==
    IF order = <<>> \/ error_string = IndexErrorMark THEN error_string
    ELSE LET index == Head(order)
         IN IF PyInt(<<index>>) >= Len(cmds) THEN IndexErrorMark
            ELSE RewriteIndices(
                    Replace(error_string, <<"I", "n", " ", index>>,
                            <<"I", "n", " ">> \o Chars(cmds[PyInt(<<index>>) + 1].name)),
                    Tail(order), cmds)

NoError == [cls |-> "None", uid |-> "None", status |-> 0, message |-> <<>>]
NoFailure == [error |-> NoError, batch |-> <<>>]
IndexError == [cls |-> "IndexError", uid |-> "new", status |-> 0, message |-> <<>>]

\* a handler that raises a new exception in place of the one it was given
HandleRegisterErrorFresh(error, cmds) == {[error EXCEPT !.uid = "new"]}

\* CommandClient._handle_register_error: the exceptions it may raise
HandleRegisterError(error, cmds) ==
    IF error.status = 400
    THEN {LET m == RewriteIndices(error.message, o, cmds)
          IN IF m = IndexErrorMark THEN IndexError ELSE [error EXCEPT !.message = m] :
          o \in Orders(Range(FindIndices(error.message, 1)))}
    ELSE {error}

(***************************************************************************)
(* The remote API: it assigns one id per (scope, name), stable across      *)
(* calls, and answers a bulk upsert with the (name, id) of every item.     *)
(***************************************************************************)
RemoteId(k) == <<"1", "0", DigitChar[k + 1]>>

RECURSIVE RemoteAssign(_, _, _, _)
RemoteAssign(rem, scope, batch, i) ==
    IF i > Len(batch) THEN rem
    ELSE RemoteAssign(
            IF HasKey(rem, <<scope, batch[i].name>>) THEN rem
            ELSE Append(rem, <<<<scope, batch[i].name>>, RemoteId(Len(rem) + 1)>>),
            scope, batch, i + 1)

Reverse(s) == [i \in 1..Len(s) |-> s[Len(s) + 1 - i]]

\* the answers to a bulk upsert: one (name, id) per item, in either order
RemoteResponses(rem, scope, batch) ==
    LET r == [i \in 1..Len(batch) |->
                [name |-> batch[i].name, id |-> Get(rem, <<scope, batch[i].name>>)]]
    IN {r, Reverse(r)}

\* the HTTP errors a bulk upsert of `batch` may fail with: a 400 whose message
\* names the first item by its index (or no item, when the batch is empty),
\* and a server error
UpsertErrors(batch) ==
    {[cls |-> "HTTPException", uid |-> "e400", status |-> 400,
      message |-> IF batch = <<>> THEN <<"x">> ELSE <<"I", "n", " ", "0", ":", "x">>],
     [cls |-> "HTTPException", uid |-> "e500", status |-> 500,
      message |-> <<"I", "n", " ", "0", ":", "x">>]}

PermsError == [cls |-> "HTTPException", uid |-> "e403", status |-> 403, message |-> <<"x">>]

(***************************************************************************)
(* client.py: login and _update_scope_commands, one action per stretch     *)
(* of code between two awaits.                                             *)
(***************************************************************************)
IdleTask == [pc |-> "idle", idx |-> 0, batch |-> <<>>, permq |-> <<>>, raised |-> NoError]

\* a _register_scope_commands that sends every batch to the global endpoint
RegisterScopeCommandsGlobal(t, scope, command_data) ==
    [op |-> "bulk_upsert_global_commands", guild |-> "None",
     payload |-> command_data, task |-> t]

\* CommandClient._register_scope_commands: the request it sends
RegisterScopeCommands(t, scope, command_data) ==
    IF scope # "None"
    THEN [op |-> "bulk_upsert_guild_commands", guild |-> scope,
          payload |-> command_data, task |-> t]
    ELSE [op |-> "bulk_upsert_global_commands", guild |-> "None",
          payload |-> command_data, task |-> t]

\* the for loop of login reaching the i-th scope: _update_scope_commands dumps
\* the scope's commands and submits them, or the loop is over
EnterScope(t, i, cmds, ns, cs) ==
    IF i > Len(cmds)
    THEN [task |-> [IdleTask EXCEPT !.pc = "done", !.idx = i], calls |-> cs]
    ELSE LET scope == cmds[i][1]
             command_data ==
                 [k \in 1..Len(cmds[i][2]) |-> dump(ns, cmds[i][2][k][2])]
         IN [task |-> [IdleTask EXCEPT !.pc = "await_upsert", !.idx = i,
                                       !.batch = command_data],
             calls |-> Append(cs, RegisterScopeCommands(t, scope, command_data))]

\* the overrides of `command` appended to permission_data under each guild
RECURSIVE CollectPermissions(_, _, _, _)
CollectPermissions(pd, perms, command_id, k) ==
    IF k > Len(perms) THEN pd
    ELSE CollectPermissions(Put(pd, perms[k][1],
                                Append(GetOr(pd, perms[k][1], <<>>),
                                       [id |-> command_id, permissions |-> perms[k][2]])),
                            perms, command_id, k + 1)

\* a binding loop that pairs the results with the scope's commands by position
RECURSIVE BindCreatedByPosition(_, _, _, _)
BindCreatedByPosition(st, created, scope_commands, i) ==
    IF i > Len(created) THEN st
    ELSE LET command == scope_commands[i][2]
             command_id == PyInt(created[i].id)
         IN BindCreatedByPosition(
                [nodes |-> [st.nodes EXCEPT ![command].id = command_id],
                 by_id |-> Put(st.by_id, command_id, command),
                 permission_data |-> CollectPermissions(st.permission_data,
                                        st.nodes[command].permissions, command_id, 1)],
                created, scope_commands, i + 1)

\* a binding loop that first empties the index and unbinds every node
RECURSIVE BindCreatedRebuilt(_, _, _, _)
BindCreatedRebuilt(st, created, scope_commands, i) ==
    IF i > Len(created) THEN st
    ELSE LET s0 == IF i = 1
                   THEN [st EXCEPT !.by_id = <<>>,
                                   !.nodes = [k \in DOMAIN st.nodes |->
                                                 [st.nodes[k] EXCEPT !.id = NoId]]]
                   ELSE st
             command == Get(scope_commands, created[i].name)
             command_id == PyInt(created[i].id)
         IN BindCreatedRebuilt(
                [nodes |-> [s0.nodes EXCEPT ![command].id = command_id],
                 by_id |-> Put(s0.by_id, command_id, command),
                 permission_data |-> CollectPermissions(s0.permission_data,
                                        s0.nodes[command].permissions, command_id, 1)],
                created, scope_commands, i + 1)

\* the loop over created_commands: bind each id and collect the overrides
RECURSIVE BindCreated(_, _, _, _)
BindCreated(st, created, scope_commands, i) ==
    IF i > Len(created) THEN st
    ELSE LET command == Get(scope_commands, created[i].name)
             command_id == PyInt(created[i].id)
         IN BindCreated([nodes |-> [st.nodes EXCEPT ![command].id = command_id],
                         by_id |-> Put(st.by_id, command_id, command),
                         permission_data |-> CollectPermissions(st.permission_data,
                                                st.nodes[command].permissions, command_id, 1)],
                        created, scope_commands, i + 1)

\* the loop over permission_data skips guilds with an empty list
NonEmptyPermissions(pd) == SelectSeq(pd, LAMBDA e : e[2] # <<>>)

\* the rest of _update_scope_commands: the next permission call, or the next scope
NextPermissions(t, i, permq, cmds, ns, cs) ==
    IF permq # <<>>
    THEN [task |-> [IdleTask EXCEPT !.pc = "await_perms", !.idx = i, !.permq = permq],
          calls |-> Append(cs, [op |-> "bulk_edit_guild_application_command_permissions",
                                guild |-> permq[1][1], payload |-> permq[1][2], task |-> t])]
    ELSE EnterScope(t, i + 1, cmds, ns, cs)

AllIdle == \A t \in Tasks : task[t].pc = "idle"

PermissionMenu == {<<>>, <<allow_roles(<<7>>, "g1")>>}
GuildMenu == {GUILD_ID_DEFAULT} \cup Guilds

\* @client.command(guild_id=gid, name=name, permissions=permissions) on a callback
Command(name, gid, permissions) ==
    /\ AllIdle
    /\ Len(nodes) < MaxDecl
    /\ LET command == NewSlashCommand("callback", name, "No description.", <<>>,
                                      CommandGuild(gid), TRUE, permissions)
       IN /\ command.cls # "TypeError"
          /\ nodes' = Append(nodes, command)
          /\ commands' = StoreCommand(commands, nodes', Len(nodes'))
    /\ UNCHANGED <<guild_id, by_id, task, remote, calls, responses, delivered, nonSyncVars>>

\* login() is called and awaits http.static_login; the coroutines are
\* interchangeable, so they are started in the order of TaskOrder
Login(t) ==
    /\ task[t].pc = "idle"
    /\ \A i \in 1..Len(TaskOrder) :
          TaskOrder[i] = t => \A j \in 1..(i - 1) : task[TaskOrder[j]].pc # "idle"
    /\ task' = [task EXCEPT ![t].pc = "static_login"]
    /\ UNCHANGED <<guild_id, nodes, commands, by_id, remote, calls, responses, delivered, nonSyncVars>>

\* a login that synchronizes only the scopes commands were stored under
StaticLoginReturnStoredOnly(t) ==
    /\ task[t].pc = "static_login"
    /\ commands' = commands
    /\ LET r == EnterScope(t, 1, commands', nodes, calls)
       IN /\ task' = [task EXCEPT ![t] = r.task]
          /\ calls' = r.calls
    /\ UNCHANGED <<guild_id, nodes, by_id, remote, responses, delivered, nonSyncVars>>

\* static_login returns: the global scope is made to exist and the first
\* scope is submitted
StaticLoginReturn(t) ==
    /\ task[t].pc = "static_login"
    /\ commands' = Put(commands, "None", GetOr(commands, "None", <<>>))
    /\ LET r == EnterScope(t, 1, commands', nodes, calls)
       IN /\ task' = [task EXCEPT ![t] = r.task]
          /\ calls' = r.calls
    /\ UNCHANGED <<guild_id, nodes, by_id, remote, responses, delivered, nonSyncVars>>

\* a login that starts over when a call fails
FailedTaskRetried(tk, exc) == [IdleTask EXCEPT !.pc = "static_login"]

\* an exception leaves login: the coroutine is over, whatever it had done
FailedTask(tk, exc) == [tk EXCEPT !.pc = "failed", !.raised = exc]

\* the bulk upsert returns the created commands
UpsertReturn(t, created_commands) ==
    /\ task[t].pc = "await_upsert"
    /\ LET i == task[t].idx
           scope == commands[i][1]
           rem == RemoteAssign(remote, scope, task[t].batch, 1)
           st == BindCreated([nodes |-> nodes, by_id |-> by_id, permission_data |-> <<>>],
                             created_commands, commands[i][2], 1)
           r == NextPermissions(t, i, NonEmptyPermissions(st.permission_data),
                                commands, st.nodes, calls)
       IN /\ created_commands \in RemoteResponses(rem, scope, task[t].batch)
          /\ remote' = rem
          /\ nodes' = st.nodes
          /\ by_id' = st.by_id
          /\ task' = [task EXCEPT ![t] = r.task]
          /\ calls' = r.calls
          /\ responses' = [responses EXCEPT ![t] =
                              Append(@, [scope |-> scope, created |-> created_commands])]
    /\ UNCHANGED <<guild_id, commands, delivered, nonSyncVars>>

\* the bulk upsert fails: _handle_register_error raises and login ends
UpsertFail(t, error) ==
    /\ task[t].pc = "await_upsert"
    /\ error \in UpsertErrors(task[t].batch)
    /\ \E exc \in HandleRegisterError(error, task[t].batch) :
          task' = [task EXCEPT ![t] = FailedTask(task[t], exc)]
    /\ delivered' = [delivered EXCEPT ![t] = error]
    /\ UNCHANGED <<guild_id, nodes, commands, by_id, remote, calls, responses, nonSyncVars>>

\* a permission call returns: the next one is sent, or the next scope entered
PermsReturn(t) ==
    /\ task[t].pc = "await_perms"
    /\ LET r == NextPermissions(t, task[t].idx, Tail(task[t].permq), commands, nodes, calls)
       IN /\ task' = [task EXCEPT ![t] = r.task]
          /\ calls' = r.calls
    /\ UNCHANGED <<guild_id, nodes, commands, by_id, remote, responses, delivered, nonSyncVars>>

\* a permission call fails: the error leaves login
PermsFail(t) ==
    /\ task[t].pc = "await_perms"
    /\ task' = [task EXCEPT ![t] = FailedTask(task[t], PermsError)]
    /\ delivered' = [delivered EXCEPT ![t] = PermsError]
    /\ UNCHANGED <<guild_id, nodes, commands, by_id, remote, calls, responses, nonSyncVars>>

Init ==
    /\ guild_id \in {"None"} \cup Guilds
    /\ nodes = <<>>
    /\ commands = <<>>
    /\ by_id = <<>>
    /\ task = [t \in Tasks |-> IdleTask]
    /\ remote = <<>>
    /\ calls = <<>>
    /\ responses = [t \in Tasks |-> <<>>]
    /\ delivered = [t \in Tasks |-> NoError]
    /\ custom_interaction = "None"
    /\ inbox = <<>>
    /\ trace = <<>>
    /\ dumps = <<>>
    /\ failure = NoFailure
    /\ raised = {}
    /\ ready = FALSE
    /\ declarations = <<>>
    /\ inv = <<>>
    /\ described = <<>>
    /\ choice_classes = <<>>
    /\ decorated = Undecorated

Next ==
    \/ \E name \in CommandNames, gid \in GuildMenu, permissions \in PermissionMenu :
          Command(name, gid, permissions)
    \/ \E t \in Tasks : Login(t)
    \/ \E t \in Tasks : StaticLoginReturn(t)
    \/ \E t \in Tasks :
          \E created_commands \in
                RemoteResponses(RemoteAssign(remote, commands[task[t].idx][1], task[t].batch, 1),
                                commands[task[t].idx][1], task[t].batch) :
             UpsertReturn(t, created_commands)
    \/ \E t \in Tasks : \E error \in UpsertErrors(task[t].batch) : UpsertFail(t, error)
    \/ \E t \in Tasks : PermsReturn(t)
    \/ \E t \in Tasks : PermsFail(t)

Spec == Init /\ [][Next]_vars

(***************************************************************************)
(* commands.py: invocation.  A call returns what it did: the handler calls *)
(* made, the options coerced, the nodes entered, the guild lookups, and    *)
(* the exception that left it.                                             *)
(***************************************************************************)
NoTrace == [called |-> <<>>, coerced |-> <<>>, entered |-> <<>>, lookups |-> <<>>,
            exc |-> NoExc]

\* dict.get("options", []) of a payload entry or of interaction.data
PayloadOptions(d) == IF "options" \in DOMAIN d THEN d.options ELSE <<>>

\* {option["name"]: option for option in full_options}
RECURSIVE OptionMap(_, _, _)
OptionMap(full_options, i, map) ==
    IF i > Len(full_options) THEN map
    ELSE OptionMap(full_options, i + 1, Put(map, full_options[i].name, full_options[i]))

\* the key under which _process_option_data stores the value of an option
ArgumentKey(opt) == opt.name

\* the loop of CallableSlashCommand._process_option_data over self.options
RECURSIVE CoerceArguments(_, _, _, _, _)
CoerceArguments(ref, opts, option_map, guild, acc) ==
    IF opts = <<>> \/ acc.exc.cls # "None" THEN acc
    ELSE LET opt == Head(opts)[2]
             data == GetOr(option_map, opt.name, <<>>)
             r == OptionCall(opt, data, guild)
         IN CoerceArguments(ref, Tail(opts), option_map, guild,
                [arguments |-> IF r.exc.cls = "None"
                               THEN Put(acc.arguments, ArgumentKey(opt), r.value)
                               ELSE acc.arguments,
                 coerced |-> Append(acc.coerced,
                                [node |-> ref, option |-> opt, data |-> data,
                                 value |-> r.value, exc |-> r.exc, lookups |-> r.lookups]),
                 lookups |-> acc.lookups \o r.lookups,
                 exc |-> r.exc])

\* the parameter names of a callback are the keys of the node's options
Parameters(n) == Range(Keys(n.options))

\* _process_option_data without its try/except
WrapHandlerErrorBare(exc) == exc

\* what the except clause of _process_option_data wraps
WrapHandlerError(exc) == SlashCommandInvokeError(exc)

\* a coercion loop moved inside the try
CoercionErrorWrapped(exc) == SlashCommandInvokeError(exc)

\* the loop over self.options stands before the try: what an option raises
\* leaves _process_option_data as it was raised
CoercionError(exc) == exc

\* CallableSlashCommand._process_option_data
CallableProcessOptionData(ns, ref, interaction, option_map, env) ==
    LET n == ns[ref]
        a == CoerceArguments(ref, n.options, option_map, interaction.guild,
                [arguments |-> <<>>, coerced |-> <<>>, lookups |-> <<>>, exc |-> NoExc])
        call == [node |-> ref, callback |-> n.callback, prepend_params |-> n.prepend_params,
                 custom |-> env.custom_interaction # "None", arguments |-> a.arguments,
                 ran |-> Range(Keys(a.arguments)) \subseteq Parameters(n)]
        base == [NoTrace EXCEPT !.coerced = a.coerced, !.lookups = a.lookups]
    IN IF a.exc.cls # "None" THEN [base EXCEPT !.exc = CoercionError(a.exc)]
       ELSE IF env.custom_interaction = "raises"
       THEN [base EXCEPT !.exc = WrapHandlerError(Exc("RuntimeError", "custom"))]
       ELSE IF ~call.ran
       THEN [base EXCEPT !.called = <<call>>,
                         !.exc = WrapHandlerError(Exc("TypeError", "keyword"))]
       ELSE IF env.outcome = "return"
       THEN [base EXCEPT !.called = <<call>>]
       ELSE [base EXCEPT !.called = <<call>>,
                         !.exc = WrapHandlerError(Exc("Exception", env.outcome))]

RECURSIVE Call(_, _, _, _, _)

\* the first child, in the order of self.subcommands, whose name is a key of
\* the option map; 0 when there is none
MatchingChild(ns, n, option_map) ==
    IF \E i \in 1..Len(n.subcommands) : HasKey(option_map, ns[n.subcommands[i][2]].name)
    THEN CHOOSE i \in 1..Len(n.subcommands) :
            /\ HasKey(option_map, ns[n.subcommands[i][2]].name)
            /\ \A j \in 1..(i - 1) : ~HasKey(option_map, ns[n.subcommands[j][2]].name)
    ELSE 0

\* ContainerSlashCommand._process_option_data entering its first child when
\* no child is named
ContainerProcessOptionDataDefault(ns, ref, interaction, option_map, env) ==
    LET n == ns[ref]
        m == MatchingChild(ns, n, option_map)
        i == IF m = 0 /\ Len(n.subcommands) > 0 THEN 1 ELSE m
    IN IF i = 0 THEN NoTrace
       ELSE LET subcommand == n.subcommands[i][2]
                sub_options == PayloadOptions(GetOr(option_map, ns[subcommand].name, <<>>))
            IN Call(ns, subcommand, interaction, sub_options, env)

\* a ContainerSlashCommand._process_option_data whose loop does not return
\* after the first child it calls
ContainerProcessOptionDataAll(ns, ref, interaction, option_map, env) ==
    LET n == ns[ref]
        RECURSIVE Loop(_, _)
        Loop(i, acc) ==
            IF i > Len(n.subcommands) \/ acc.exc.cls # "None" THEN acc
            ELSE IF ~HasKey(option_map, ns[n.subcommands[i][2]].name) THEN Loop(i + 1, acc)
            ELSE LET subcommand == n.subcommands[i][2]
                     r == Call(ns, subcommand, interaction,
                               PayloadOptions(Get(option_map, ns[subcommand].name)), env)
                 IN Loop(i + 1, [called |-> acc.called \o r.called,
                                 coerced |-> acc.coerced \o r.coerced,
                                 entered |-> acc.entered \o r.entered,
                                 lookups |-> acc.lookups \o r.lookups,
                                 exc |-> r.exc])
    IN Loop(1, NoTrace)

\* ContainerSlashCommand._process_option_data
ContainerProcessOptionData(ns, ref, interaction, option_map, env) ==
    LET n == ns[ref]
        i == MatchingChild(ns, n, option_map)
    IN IF i = 0 THEN NoTrace
       ELSE LET subcommand == n.subcommands[i][2]
                sub_options == PayloadOptions(Get(option_map, ns[subcommand].name))
            IN Call(ns, subcommand, interaction, sub_options, env)

\* the options BaseSlashCommand.__call__ processes: those passed, or the
\* event's own when none (None or an empty list) were passed
FullOptions(interaction, options) ==
    IF options # <<>> THEN options
    ELSE IF DOMAIN interaction.data # {} THEN PayloadOptions(interaction.data)
    ELSE <<>>

\* BaseSlashCommand.__call__(interaction, options); options is <<>> for None
Call(ns, ref, interaction, options, env) ==
    LET option_map == OptionMap(FullOptions(interaction, options), 1, <<>>)
        r == IF ns[ref].cls \in Callables
             THEN CallableProcessOptionData(ns, ref, interaction, option_map, env)
             ELSE ContainerProcessOptionData(ns, ref, interaction, option_map, env)
    IN [r EXCEPT !.entered =
           <<[node |-> ref, options |-> options, keys |-> Keys(option_map)]>> \o @]

(***************************************************************************)
(* client.py: on_interaction.                                              *)
(***************************************************************************)
\* an on_interaction that routes an id it does not know to the command
\* bound first
on_interactionFirstBound(interaction, env) ==
    LET quiet == [NoTrace EXCEPT !.exc = NoExc] @@ [signals |-> <<>>, thrown |-> NoExc]
    IN IF interaction.type # "application_command" THEN quiet
       ELSE IF DOMAIN interaction.data = {} \/ "id" \notin DOMAIN interaction.data
       THEN quiet
       ELSE LET command_id == PyInt(interaction.data.id)
                command == IF HasKey(by_id, command_id) THEN Get(by_id, command_id)
                           ELSE by_id[1][2]
                r == Call(nodes, command, interaction, <<>>, env)
            IN IF r.exc.cls = "SlashCommandInvokeError"
               THEN r @@ [signals |-> <<[event |-> "slash_command_error",
                                         error |-> r.exc]>>,
                          thrown |-> NoExc]
               ELSE r @@ [signals |-> <<>>, thrown |-> r.exc]

\* CommandClient.on_interaction: the trace of the routed call, the signals
\* dispatched and the exception thrown back to the event-delivery layer
on_interaction(interaction, env) ==
    LET quiet == [NoTrace EXCEPT !.exc = NoExc] @@ [signals |-> <<>>, thrown |-> NoExc]
    IN IF interaction.type # "application_command" THEN quiet
       ELSE IF DOMAIN interaction.data = {} \/ "id" \notin DOMAIN interaction.data
       THEN quiet
       ELSE LET command_id == PyInt(interaction.data.id)
            IN IF ~HasKey(by_id, command_id)
               THEN [quiet EXCEPT !.thrown = Exc("KeyError", "by_id")]
               ELSE LET r == Call(nodes, Get(by_id, command_id), interaction, <<>>, env)
                    IN IF r.exc.cls = "SlashCommandInvokeError"
                       THEN r @@ [signals |-> <<[event |-> "slash_command_error",
                                                 error |-> r.exc]>>,
                                  thrown |-> NoExc]
                       ELSE r @@ [signals |-> <<>>, thrown |-> r.exc]

(***************************************************************************)
(* Invocation: a client whose commands are declared and synchronized       *)
(* receives interactions.                                                  *)
(*   /ping text:<str> who:<User>                                           *)
(*   /g a n:<int>                                                          *)
(*   /g b b            /g b x v:<str>   (the parameter of v is `target`)   *)
(***************************************************************************)
Parameter(name, annotation, default) ==
    [name |-> name, annotation |-> annotation, default |-> default]

DeclaredNodes ==
    LET ping == NewSlashCommand("ping", "None", "None",
                    <<Parameter("text", "str", option("Text.", TRUE, <<>>, "None", "None")),
                      Parameter("who", "User", option("Who.", FALSE, <<>>, "None", "None"))>>,
                    "None", TRUE, <<>>)
        g == NewSlashCommandGroup("g", "Group.", "None", TRUE, <<>>)
        a == NewSlashSubCommand("a", "None", "None",
                    <<Parameter("n", "int", option("N.", FALSE, <<>>, "None", "None"))>>)
        b == NewSlashCommandSubGroup("b", "Sub-group.")
        bb == NewSlashSubCommand("b_b", "b", "None", <<>>)
        x == NewSlashSubCommand("x", "None", "None",
                    <<Parameter("target", "str", option("V.", FALSE, <<>>, "v", "None"))>>)
        ns == <<ping, g, a, b, bb, x>>
    IN GroupMetaNew(GroupMetaNew(ns, 4, <<5, 6>>, 1), 2, <<3, 4>>, 1)

DeclaredCommands == StoreCommand(StoreCommand(<<>>, DeclaredNodes, 1), DeclaredNodes, 2)

\* the state login leaves: ping bound to 101 and g to 102
Synchronized ==
    BindCreated([nodes |-> DeclaredNodes, by_id |-> <<>>, permission_data |-> <<>>],
                <<[name |-> "ping", id |-> RemoteId(1)], [name |-> "g", id |-> RemoteId(2)]>>,
                Get(DeclaredCommands, "None"), 1)

\* the guild of an interaction, with its caches and the members it can fetch
Guild ==
    [present |-> TRUE, roles |-> {8}, members |-> {7}, fetchable |-> {7, 9},
     channels |-> {5}]
NoGuild ==
    [present |-> FALSE, roles |-> {}, members |-> {}, fetchable |-> {}, channels |-> {}]

Entry(name, type, value) == [name |-> name, type |-> type, value |-> value]
Bare(name, type) == [name |-> name, type |-> type]
Sub(name, type, options) == [name |-> name, type |-> type, options |-> options]

\* payload entries that carry (or lack) the value of an option
TextEntries ==
    {Entry("text", 3, Value("str", <<"a">>)), Entry("text", 3, Value("str", <<>>)),
     Bare("text", 3), Entry("text", 6, Value("str", <<"7">>))}
UserEntries ==
    {Entry("who", 6, Value("str", <<"7">>)), Entry("who", 6, Value("str", <<"9">>)),
     Entry("who", 6, Value("str", <<"4">>)), Entry("who", 9, Value("str", <<"8">>)),
     Entry("who", 9, Value("str", <<"9">>)),
     Entry("who", 8, Value("str", <<"3">>)), Entry("who", 7, Value("str", <<"5">>)),
     Entry("who", 7, Value("str", <<"3">>)), Bare("who", 6)}
NumberEntries ==
    {Entry("n", 4, Value("int", <<"0">>)), Entry("n", 4, Value("int", <<"5">>)),
     Entry("n", 5, Value("bool", <<"F">>)), Entry("n", 10, Value("float", <<"0", ".", "5">>)),
     Bare("n", 4)}
ValueEntries == {Entry("v", 3, Value("str", <<"a">>)), Bare("v", 3)}

RECURSIVE SeqsUpTo(_, _)
SeqsUpTo(S, n) ==
    IF n = 0 THEN {<<>>}
    ELSE SeqsUpTo(S, n - 1) \cup
         {Append(q, e) : q \in {p \in SeqsUpTo(S, n - 1) : Len(p) = n - 1}, e \in S}

\* payload entries that select a sub-command or a sub-command group
AEntries == {Sub("a", 1, o) : o \in {<<>>} \cup {<<e>> : e \in NumberEntries}}
                \cup {Bare("a", 1)}
XEntries == {Sub("x", 1, o) : o \in {<<>>} \cup {<<e>> : e \in ValueEntries}}
BBEntry == Sub("b", 1, <<>>)
BEntries ==
    {Sub("b", 2, o) : o \in {<<>>, <<BBEntry>>, <<Sub("zz", 1, <<>>)>>}
                             \cup {<<e>> : e \in XEntries}}
        \cup {Bare("b", 2)}

\* the options arrays of the interactions of the model
OptionLists ==
    SeqsUpTo(TextEntries \cup UserEntries, MaxOptions)
        \cup {<<e>> : e \in AEntries \cup BEntries \cup XEntries}
        \cup {<<Sub("zz", 1, <<>>)>>}
        \cup {<<Sub("b", 2, <<>>), e>> : e \in XEntries}
        \cup {<<Sub("a", 1, <<>>), Sub("b", 2, <<BBEntry>>)>>,
              <<Sub("b", 2, <<BBEntry>>), Sub("a", 1, <<>>)>>}

CommandIds == {RemoteId(1), RemoteId(2), RemoteId(9)}

Interactions ==
    {[type |-> "application_command", data |-> [id |-> i, options |-> o], guild |-> g] :
        i \in CommandIds, o \in OptionLists, g \in {Guild, NoGuild}}
    \cup {[type |-> "application_command", data |-> d, guild |-> Guild] :
            d \in {<<>>} \cup {[id |-> i] : i \in CommandIds}
                  \cup {[options |-> <<Sub("a", 1, <<>>)>>]}}
    \cup {[type |-> "component",
           data |-> [id |-> RemoteId(2), options |-> <<Sub("a", 1, <<>>)>>],
           guild |-> Guild]}

Outcomes == {"return", "E1", "E2"}

\* the event-delivery layer hands an interaction to on_interaction
Deliver(interaction) ==
    /\ inbox = <<>>
    /\ trace = <<>>
    /\ inbox' = <<interaction>>
    /\ UNCHANGED <<syncVars, custom_interaction, trace, dumpVars, rewriteVars, extraVars>>

\* on_interaction runs on the delivered interaction; the handler it reaches,
\* if any, returns or raises as `outcome` says
OnInteraction(outcome) ==
    /\ inbox # <<>>
    /\ trace' = <<on_interaction(inbox[1],
                     [custom_interaction |-> custom_interaction, outcome |-> outcome])
                  @@ [interaction |-> inbox[1], outcome |-> outcome]>>
    /\ inbox' = <<>>
    /\ UNCHANGED <<syncVars, custom_interaction, dumpVars, rewriteVars, extraVars>>

\* the event-delivery layer is done with the interaction
Return ==
    /\ trace # <<>>
    /\ trace' = <<>>
    /\ UNCHANGED <<syncVars, custom_interaction, inbox, dumpVars, rewriteVars, extraVars>>

InitInvoke ==
    /\ guild_id = "None"
    /\ nodes = Synchronized.nodes
    /\ commands = DeclaredCommands
    /\ by_id = Synchronized.by_id
    /\ task = [t \in Tasks |-> IF t = TaskOrder[1] THEN [IdleTask EXCEPT !.pc = "done"]
                                ELSE IdleTask]
    /\ remote = <<<<<<"None", "ping">>, RemoteId(1)>>, <<<<"None", "g">>, RemoteId(2)>>>>
    /\ calls = <<>>
    /\ responses = [t \in Tasks |-> <<>>]
    /\ delivered = [t \in Tasks |-> NoError]
    /\ custom_interaction \in {"None", "wrap", "raises"}
    /\ inbox = <<>>
    /\ trace = <<>>
    /\ dumps = <<>>
    /\ failure = NoFailure
    /\ raised = {}
    /\ ready = FALSE
    /\ declarations = <<>>
    /\ inv = <<>>
    /\ described = <<>>
    /\ choice_classes = <<>>
    /\ decorated = Undecorated

NextInvoke ==
    \/ \E interaction \in Interactions : Deliver(interaction)
    \/ \E outcome \in Outcomes : OnInteraction(outcome)
    \/ Return

SpecInvoke == InitInvoke /\ [][NextInvoke]_vars

(***************************************************************************)
(* Start-up: Client.start awaits login() and then connects to the gateway, *)
(* which sets the ready event; interactions arrive once connected.         *)
(***************************************************************************)
\* an on_interaction that does not await the ready event
WaitUntilReadySkipped == TRUE

\* await self.wait_until_ready(): the coroutine goes on once ready is set
WaitUntilReady == ready

\* the login() that start() awaited has returned and the gateway is ready
Ready ==
    /\ ~ready
    /\ task[TaskOrder[1]].pc = "done"
    /\ ready' = TRUE
    /\ UNCHANGED <<syncVars, invokeVars, dumpVars, rewriteVars, descVars, declVars, reentrantVars>>

\* the interactions of the start-up model: one per command id, no options
StartInteractions ==
    {[type |-> "application_command", data |-> [id |-> i, options |-> <<>>],
      guild |-> NoGuild] : i \in {RemoteId(1), RemoteId(2)}}

\* an interaction arrives and on_interaction handles it
Invoke(interaction) ==
    /\ WaitUntilReady
    /\ trace' = <<on_interaction(interaction,
                     [custom_interaction |-> custom_interaction, outcome |-> "return"])
                  @@ [interaction |-> interaction, outcome |-> "return"]>>
    /\ UNCHANGED <<syncVars, custom_interaction, inbox, dumpVars, rewriteVars, extraVars>>

NextStart ==
    \/ \E name \in CommandNames, gid \in GuildMenu : Command(name, gid, <<>>)
    \/ \E t \in Tasks : Login(t)
    \/ \E t \in Tasks : StaticLoginReturn(t)
    \/ \E t \in Tasks :
          \E created_commands \in
                RemoteResponses(RemoteAssign(remote, commands[task[t].idx][1], task[t].batch, 1),
                                commands[task[t].idx][1], task[t].batch) :
             UpsertReturn(t, created_commands)
    \/ \E t \in Tasks : \E error \in UpsertErrors(task[t].batch) : UpsertFail(t, error)
    \/ Ready
    \/ \E interaction \in StartInteractions : Invoke(interaction)

SpecStart == Init /\ [][NextStart]_vars

(***************************************************************************)
(* Declaration: commands and groups are declared on a client, with the     *)
(* default guild id, with None or with a guild of their own.               *)
(***************************************************************************)
DeclarationGuilds == {GUILD_ID_DEFAULT, "None"} \cup Guilds

\* @client.command(guild_id=gid, name=name) on a callback
DeclareCommandIn(name, gid) ==
    /\ Len(nodes) < MaxDecl
    /\ nodes' = Append(nodes, NewSlashCommand("callback", name, "No description.", <<>>,
                                              CommandGuild(gid), TRUE, <<>>))
    /\ commands' = StoreCommand(commands, nodes', Len(nodes'))
    /\ declarations' = Append(declarations, [ref |-> Len(nodes'), guild_id |-> gid])
    /\ UNCHANGED <<guild_id, by_id, task, remote, calls, responses, delivered,
                   invokeVars, dumpVars, rewriteVars, descVars, startVars, reentrantVars>>

\* @client.group on class G(CommandGroup, guild_id=gid), G without members
DeclareGroupIn(name, gid) ==
    /\ Len(nodes) < MaxDecl
    /\ LET group == NewSlashCommandGroup(name, "No description.", gid, TRUE, <<>>)
           r == ClientGroup(commands, Append(nodes, group), Len(nodes) + 1)
       IN /\ nodes' = r.nodes
          /\ commands' = r.commands
    /\ declarations' = Append(declarations, [ref |-> Len(nodes'), guild_id |-> gid])
    /\ UNCHANGED <<guild_id, by_id, task, remote, calls, responses, delivered,
                   invokeVars, dumpVars, rewriteVars, descVars, startVars, reentrantVars>>

NextDeclare ==
    \/ \E name \in CommandNames, gid \in DeclarationGuilds : DeclareCommandIn(name, gid)
    \/ \E name \in {"g", "ping"}, gid \in DeclarationGuilds : DeclareGroupIn(name, gid)

SpecDeclare == Init /\ [][NextDeclare]_vars

(***************************************************************************)
(* Re-entrant invocation: several on_interaction coroutines under way at   *)
(* once, each suspended at the await of an option or of its handler.       *)
(***************************************************************************)
\* the Callable that the calls of __call__ down the tree reach, with the
\* option map it processes; node 0 when a Container finds no child
RECURSIVE Route(_, _, _, _)
Route(ns, ref, interaction, options) ==
    LET option_map == OptionMap(FullOptions(interaction, options), 1, <<>>)
        i == MatchingChild(ns, ns[ref], option_map)
        subcommand == ns[ref].subcommands[i][2]
    IN IF ns[ref].cls \in Callables THEN [node |-> ref, option_map |-> option_map]
       ELSE IF i = 0 THEN [node |-> 0, option_map |-> <<>>]
       ELSE Route(ns, subcommand, interaction,
                  PayloadOptions(Get(option_map, ns[subcommand].name)))

\* an arguments dict kept on the node and shared by its invocations
StoreArgumentOnNode(ns, ref, arguments, key, value) ==
    LET kept == IF "_arguments" \in DOMAIN ns[ref] THEN ns[ref]._arguments ELSE <<>>
        dict == Put(kept, key, value)
    IN [nodes |-> [ns EXCEPT ![ref] = WithKey(ns[ref], "_arguments", dict)],
        arguments |-> dict]

\* arguments[option.name] = ... : the dict is a local of the coroutine, and
\* nothing of the node is written
StoreArgument(ns, ref, arguments, key, value) ==
    [nodes |-> ns, arguments |-> Put(arguments, key, value)]

Coroutine(pc, interaction, route) ==
    [pc |-> pc, interaction |-> interaction, node |-> route.node,
     option_map |-> route.option_map, k |-> 1, arguments |-> <<>>, call |-> <<>>,
     exc |-> NoExc]

\* the events of the model: two of /ping with different values, one of them
\* for a member that must be fetched, one without a guild, and one of /g a
ReentrantInteractions ==
    {[type |-> "application_command", guild |-> g,
      data |-> [id |-> RemoteId(1), options |-> o]] :
        g \in {Guild}, o \in {<<Entry("text", 3, Value("str", <<"a">>)),
                                Entry("who", 6, Value("str", <<"7">>))>>,
                              <<Entry("text", 3, Value("str", <<>>)),
                                Entry("who", 6, Value("str", <<"9">>))>>}}
    \cup {[type |-> "application_command", guild |-> NoGuild,
           data |-> [id |-> RemoteId(1),
                     options |-> <<Entry("who", 6, Value("str", <<"7">>))>>]],
          [type |-> "application_command", guild |-> Guild,
           data |-> [id |-> RemoteId(2),
                     options |-> <<Sub("a", 1, <<Entry("n", 4, Value("int", <<"5">>))>>)>>]]}

\* on_interaction starts on an interaction and runs down the tree to the
\* first await
Arrive(interaction) ==
    /\ Len(inv) < MaxInvocations
    /\ LET route == Route(nodes, Get(by_id, PyInt(interaction.data.id)), interaction, <<>>)
       IN inv' = Append(inv, Coroutine(IF route.node = 0 THEN "done" ELSE "coerce",
                                       interaction, route))
    /\ UNCHANGED <<syncVars, invokeVars, dumpVars, rewriteVars, descVars, startVars, declVars>>

\* one turn of the loop over self.options: the option is awaited and its
\* value stored
CoerceOption(c) ==
    /\ inv[c].pc = "coerce"
    /\ inv[c].k <= Len(nodes[inv[c].node].options)
    /\ LET opt == nodes[inv[c].node].options[inv[c].k][2]
           r == OptionCall(opt, GetOr(inv[c].option_map, opt.name, <<>>),
                           inv[c].interaction.guild)
           st == StoreArgument(nodes, inv[c].node, inv[c].arguments,
                               ArgumentKey(opt), r.value)
       IN IF r.exc.cls # "None"
          THEN /\ inv' = [inv EXCEPT ![c].pc = "done", ![c].exc = r.exc]
               /\ nodes' = nodes
          ELSE /\ inv' = [inv EXCEPT ![c].k = @ + 1, ![c].arguments = st.arguments]
               /\ nodes' = st.nodes
    /\ UNCHANGED <<guild_id, commands, by_id, task, remote, calls, responses, delivered,
                   invokeVars, dumpVars, rewriteVars, descVars, startVars, declVars>>

\* the loop is over: the context is prepared and the callback is called
CallHandler(c) ==
    /\ inv[c].pc = "coerce"
    /\ inv[c].k > Len(nodes[inv[c].node].options)
    /\ inv' = [inv EXCEPT ![c] =
                 IF custom_interaction = "raises"
                 THEN [@ EXCEPT !.pc = "done",
                                !.exc = WrapHandlerError(Exc("RuntimeError", "custom"))]
                 ELSE [@ EXCEPT !.pc = "handler",
                                !.call = <<[node |-> inv[c].node,
                                            prepend_params |-> nodes[inv[c].node].prepend_params,
                                            interaction |-> inv[c].interaction,
                                            custom |-> custom_interaction # "None",
                                            arguments |-> inv[c].arguments]>>]]
    /\ UNCHANGED <<syncVars, invokeVars, dumpVars, rewriteVars, descVars, startVars, declVars>>

\* the awaited callback returns or raises
HandlerEnds(c, outcome) ==
    /\ inv[c].pc = "handler"
    /\ inv' = [inv EXCEPT ![c].pc = "done",
                          ![c].exc = IF outcome = "return" THEN NoExc
                                     ELSE WrapHandlerError(Exc("Exception", outcome))]
    /\ UNCHANGED <<syncVars, invokeVars, dumpVars, rewriteVars, descVars, startVars, declVars>>

NextReentrant ==
    \/ \E interaction \in ReentrantInteractions : Arrive(interaction)
    \/ \E c \in 1..Len(inv) : CoerceOption(c)
    \/ \E c \in 1..Len(inv) : CallHandler(c)
    \/ \E c \in 1..Len(inv) : \E outcome \in {"return", "E1"} : HandlerEnds(c, outcome)

SpecReentrant == InitInvoke /\ [][NextReentrant]_vars

(***************************************************************************)
(* Descriptors: a parameter of a callback is processed into a              *)
(* CommandOption, and the option is dumped.                                *)
(***************************************************************************)
Annotations ==
    {"None", "str", "int", "bool", "float", "User", "GuildChannel", "Role", "list"}
    \cup UnionTypes

\* the choices= argument of option(): pairs of a display name and a value
ChoiceMenu ==
    {<<>>,
     <<<<"A", Value("str", <<"a">>)>>>>,
     <<<<"One", Value("int", <<"1">>)>>>>,
     <<<<"Yes", Value("bool", <<"T">>)>>>>,
     <<<<"Half", Value("float", <<"0", ".", "5">>)>>>>,
     <<<<"A", Value("str", <<"a">>)>>, <<"One", Value("int", <<"1">>)>>>>}

\* _process_option on a parameter `p` annotated `annotation` whose default is
\* option("P.", required, choices, type=type)
DescribeParameter(annotation, required, choices, type) ==
    /\ described = <<>>
    /\ described' = <<[parameter |-> Parameter("p", annotation,
                                               option("P.", required, choices, "None", type)),
                       option |-> ProcessOption(Parameter("p", annotation,
                                     option("P.", required, choices, "None", type)))[2],
                       dump |-> <<>>]>>
    /\ UNCHANGED <<syncVars, invokeVars, dumpVars, rewriteVars, startVars, declVars,
                   reentrantVars, choice_classes, decorated>>

\* CommandOption.dump on the descriptor: the schema, or the TypeError of
\* type_value
DumpOption ==
    /\ described # <<>>
    /\ described[1].option.cls = "CommandOption"
    /\ described[1].dump = <<>>
    /\ described' = [described EXCEPT ![1].dump =
                       IF type_value(described[1].option.type) = NoTypeCode
                       THEN <<[cls |-> "TypeError"]>>
                       ELSE <<OptionDump(described[1].option) @@ [cls |-> "dict"]>>]
    /\ UNCHANGED <<syncVars, invokeVars, dumpVars, rewriteVars, startVars, declVars,
                   reentrantVars, choice_classes, decorated>>

NextOptions ==
    \/ \E annotation \in Annotations, required \in BOOLEAN, choices \in ChoiceMenu,
          type \in {"None", "int"} :
          DescribeParameter(annotation, required, choices, type)
    \/ DumpOption

SpecOptions == Init /\ [][NextOptions]_vars

(***************************************************************************)
(* Trees: nodes are declared with the decorators, with subcommand() and    *)
(* with the class-based groups and sub-groups, in any order and under any  *)
(* of two names.                                                           *)
(***************************************************************************)
TreeNames == {"a", "b"}

\* the node-valued attributes a class body may hold: up to MaxAttrs of the
\* nodes declared before it, in the order of the body
AttrLists ==
    {attrs \in UNION {[1..k -> 1..Len(nodes)] : k \in 0..MaxAttrs} :
        \A i, j \in 1..Len(attrs) : i # j => attrs[i] # attrs[j]}

\* @subcommand(name) on a callback in a class body: the constructor has no
\* parent and registers nothing
Subcommand(name) ==
    /\ Len(nodes) < MaxTree
    /\ nodes' = Append(nodes, NewSlashSubCommand("callback", name, "None", <<>>))
    /\ UNCHANGED <<guild_id, commands, by_id, task, remote, calls, responses, delivered,
                   nonSyncVars>>

\* @parent.subcommand(name) on a callback
ContainerSubcommand(parent, name) ==
    /\ Len(nodes) < MaxTree
    /\ nodes[parent].cls \in Containers
    /\ nodes' = Register(Append(nodes, NewSlashSubCommand("callback", name, "None", <<>>)),
                         parent, Len(nodes) + 1)
    /\ UNCHANGED <<guild_id, commands, by_id, task, remote, calls, responses, delivered,
                   nonSyncVars>>

\* class X(CommandSubGroup, name=name) whose body holds attrs
SubGroupClass(name, attrs) ==
    /\ Len(nodes) < MaxTree
    /\ nodes' = GroupMetaNew(Append(nodes, NewSlashCommandSubGroup(name, "No description.")),
                             Len(nodes) + 1, attrs, 1)
    /\ UNCHANGED <<guild_id, commands, by_id, task, remote, calls, responses, delivered,
                   nonSyncVars>>

\* @client.group on class X(CommandGroup, name=name) whose body holds attrs
GroupClass(name, attrs) ==
    /\ Len(nodes) < MaxTree
    /\ LET group == NewSlashCommandGroup(name, "No description.", GUILD_ID_DEFAULT, TRUE, <<>>)
           ns == GroupMetaNew(Append(nodes, group), Len(nodes) + 1, attrs, 1)
           r == ClientGroup(commands, ns, Len(nodes) + 1)
       IN /\ nodes' = r.nodes
          /\ commands' = r.commands
    /\ UNCHANGED <<guild_id, by_id, task, remote, calls, responses, delivered, nonSyncVars>>

\* @client.command(name=name, guild_id=gid) on a callback
ClientCommand(name, gid) ==
    /\ Len(nodes) < MaxTree
    /\ nodes' = Append(nodes, NewSlashCommand("callback", name, "None", <<>>,
                                              CommandGuild(gid), TRUE, <<>>))
    /\ commands' = StoreCommand(commands, nodes', Len(nodes'))
    /\ UNCHANGED <<guild_id, by_id, task, remote, calls, responses, delivered, nonSyncVars>>

NextTree ==
    \/ \E name \in TreeNames : Subcommand(name)
    \/ \E parent \in 1..Len(nodes), name \in TreeNames : ContainerSubcommand(parent, name)
    \/ \E name \in TreeNames, attrs \in AttrLists : SubGroupClass(name, attrs)
    \/ \E name \in TreeNames, attrs \in AttrLists : GroupClass(name, attrs)
    \/ \E name \in TreeNames, gid \in {GUILD_ID_DEFAULT, "None"} : ClientCommand(name, gid)

SpecTree == Init /\ [][NextTree]_vars

(***************************************************************************)
(* choices.py: the Choices classes.  A class body is an ordered dict of    *)
(* attribute name -> attribute value; an attribute value is a str, a       *)
(* Choice or something else.                                               *)
(***************************************************************************)
StrAttr(s) == [cls |-> "str", name |-> None, value |-> Value("str", <<s>>)]
ChoiceAttr(name, value) == [cls |-> "Choice", name |-> Value("str", <<name>>), value |-> value]
OtherAttr == [cls |-> "function", name |-> None, value |-> None]

\* Choice(name, value), and the instance new_cls(name, value)
Choice(name, value) == [name |-> name, value |-> value]

\* an attribute_to_choice that takes the attribute's string as the value
AttributeToChoiceSwapped(name, value) ==
    IF value.cls = "str"
    THEN [found |-> TRUE, choice |-> Choice(Value("str", <<name>>), value.value),
          type |-> "str"]
    ELSE IF value.cls = "Choice"
    THEN [found |-> TRUE, choice |-> Choice(value.name, value.value), type |-> value.value.kind]
    ELSE [found |-> FALSE, choice |-> Choice(None, None), type |-> "None"]

\* ChoicesMeta.attribute_to_choice: for a str the attribute name is the
\* value and the string is the display name
AttributeToChoice(name, value) ==
    IF value.cls = "str"
    THEN [found |-> TRUE, choice |-> Choice(value.value, Value("str", <<name>>)),
          type |-> "str"]
    ELSE IF value.cls = "Choice"
    THEN [found |-> TRUE, choice |-> Choice(value.name, value.value), type |-> value.value.kind]
    ELSE [found |-> FALSE, choice |-> Choice(None, None), type |-> "None"]

\* name.startswith("_")
Private(name) == name \in {"_p"}

\* ChoicesMeta.attributes_to_choices: the loop over attrs.items()
RECURSIVE AttributesToChoices(_, _, _, _)
AttributesToChoices(attrs, i, choices, choice_type) ==
    IF i > Len(attrs)
    THEN IF choice_type = "None" THEN [cls |-> "ValueError"]
         ELSE [cls |-> "tuple", choices |-> choices, choice_type |-> choice_type]
    ELSE LET name == attrs[i][1]
             r == AttributeToChoice(name, attrs[i][2])
         IN IF Private(name) \/ ~r.found
            THEN AttributesToChoices(attrs, i + 1, choices, choice_type)
            ELSE IF choice_type # "None" /\ choice_type # r.type
            THEN [cls |-> "TypeError"]
            ELSE AttributesToChoices(attrs, i + 1, Put(choices, name, r.choice), r.type)

\* the loop of ChoicesMeta.__new__ that fills _value_map and _name_map
RECURSIVE FillMaps(_, _, _)
FillMaps(attrs_to_choices, i, maps) ==
    IF i > Len(attrs_to_choices) THEN maps
    ELSE FillMaps(attrs_to_choices, i + 1,
                  [_value_map |-> Put(maps._value_map, attrs_to_choices[i][2].value,
                                      attrs_to_choices[i][2]),
                   _name_map |-> Put(maps._name_map, attrs_to_choices[i][1],
                                     attrs_to_choices[i][2])])

\* ChoicesMeta.__new__ for a class that is not abstract
ChoicesMetaNew(attrs) ==
    LET r == AttributesToChoices(attrs, 1, <<>>, "None")
        maps == FillMaps(r.choices, 1, [_value_map |-> <<>>, _name_map |-> <<>>])
    IN IF r.cls # "tuple" THEN [cls |-> r.cls]
       ELSE [cls |-> "Choices",
             _value_map |-> maps._value_map,
             _name_map |-> maps._name_map,
             _choice_data |-> [i \in 1..Len(r.choices) |->
                                  [name |-> r.choices[i][2].name,
                                   value |-> r.choices[i][2].value]],
             _choice_type |-> r.choice_type]

\* ChoicesMeta.__getattr__
ChoicesGetAttr(class, name) ==
    IF HasKey(class._name_map, name) THEN [cls |-> "Choice", choice |-> Get(class._name_map, name)]
    ELSE [cls |-> "KeyError", choice |-> Choice(None, None)]

\* Choices._get_by_value
GetByValue(class, value) ==
    IF HasKey(class._value_map, value)
    THEN [cls |-> "Choice", choice |-> Get(class._value_map, value)]
    ELSE [cls |-> "KeyError", choice |-> Choice(None, None)]

AttrNames == {"a", "b", "_p"}
AttrValues ==
    {StrAttr("X"), StrAttr("Y"), ChoiceAttr("X", Value("int", <<"1">>)),
     ChoiceAttr("Y", Value("int", <<"2">>)), ChoiceAttr("Y", Value("str", <<"a">>)),
     OtherAttr}
ChoiceValues == {Value("int", <<"1">>), Value("int", <<"2">>), Value("str", <<"a">>),
                 Value("str", <<"b">>), Value("str", <<"X">>)}

\* the bodies of the classes of the model: up to MaxChoices attributes of
\* different names
ClassBodies ==
    {attrs \in UNION {[1..k -> AttrNames \X AttrValues] : k \in 0..MaxChoices} :
        \A i, j \in 1..Len(attrs) : attrs[i][1] = attrs[j][1] => i = j}

\* class X(Choices) with the body attrs
DeclareChoices(attrs) ==
    /\ choice_classes = <<>>
    /\ choice_classes' = <<[attrs |-> attrs, class |-> ChoicesMetaNew(attrs), lookups |-> {}]>>
    /\ UNCHANGED <<syncVars, invokeVars, dumpVars, rewriteVars, startVars, declVars,
                   reentrantVars, described, decorated>>

\* X.<name> is read
LookupName(name) ==
    /\ choice_classes # <<>>
    /\ choice_classes[1].class.cls = "Choices"
    /\ choice_classes' = [choice_classes EXCEPT ![1].lookups =
                             @ \cup {[by |-> "name", name |-> name, value |-> None,
                                      result |-> ChoicesGetAttr(choice_classes[1].class, name)]}]
    /\ UNCHANGED <<syncVars, invokeVars, dumpVars, rewriteVars, startVars, declVars,
                   reentrantVars, described, decorated>>

\* X._get_by_value(value) is called
LookupValue(value) ==
    /\ choice_classes # <<>>
    /\ choice_classes[1].class.cls = "Choices"
    /\ choice_classes' = [choice_classes EXCEPT ![1].lookups =
                             @ \cup {[by |-> "value", name |-> "None", value |-> value,
                                      result |-> GetByValue(choice_classes[1].class, value)]}]
    /\ UNCHANGED <<syncVars, invokeVars, dumpVars, rewriteVars, startVars, declVars,
                   reentrantVars, described, decorated>>

NextChoices ==
    \/ \E attrs \in ClassBodies : DeclareChoices(attrs)
    \/ \E name \in AttrNames \ {"_p"} : LookupName(name)
    \/ \E value \in ChoiceValues : LookupValue(value)

SpecChoices == Init /\ [][NextChoices]_vars

(***************************************************************************)
(* Permission setters: setters are made, top-level commands are            *)
(* constructed, and setters are applied to them as decorators.             *)
(***************************************************************************)
\* the applications made so far
Applied == [i \in 1..Len(decorated.targets) |-> Len(decorated.targets[i][2].applied)]
TotalApplied ==
    LET RECURSIVE Sum(_)
        Sum(i) == IF i = 0 THEN 0 ELSE Applied[i] + Sum(i - 1)
    IN Sum(Len(Applied))

\* allow_roles(...) or global_permissions(...) is called: the setter s keeps
\* the list _dump_permissions returned, a new object
MakeSetter(s) ==
    /\ ~HasKey(decorated.lists, s)
    /\ decorated' = [decorated EXCEPT !.lists = Put(@, s, SetterMenu[s].made),
                                      !.result = "None"]
    /\ UNCHANGED <<syncVars, invokeVars, dumpVars, rewriteVars, startVars, declVars,
                   reentrantVars, described, choice_classes>>

\* a top-level command is constructed for the scope gid, with no permissions
\* argument: its table is empty
DeclareTarget(name, gid) ==
    /\ ~HasKey(decorated.targets, name)
    /\ decorated' = [decorated EXCEPT
                        !.targets = Put(@, name, [guild_id |-> gid, permissions |-> <<>>,
                                                  applied |-> <<>>]),
                        !.result = "None"]
    /\ UNCHANGED <<syncVars, invokeVars, dumpVars, rewriteVars, startVars, declVars,
                   reentrantVars, described, choice_classes>>

\* PermissionsSetter.__call__: the setter s is applied to the command name
ApplySetter(s, name) ==
    /\ HasKey(decorated.lists, s)
    /\ HasKey(decorated.targets, name)
    /\ TotalApplied < MaxApplied
    /\ LET command == Get(decorated.targets, name)
           setter == SetterMenu[s]
           guild == IF setter.cls = "AllPermissionsSetter" THEN setter.guild_id
                    ELSE SetterGuild(setter, command)
           updated == UpdateSharedPermissions(decorated.lists, command.permissions,
                                              <<<<guild, s>>>>)
       IN decorated' =
            IF guild = "None"
            THEN [decorated EXCEPT !.result = "TypeError"]
            ELSE [lists |-> updated.lists,
                  targets |-> Put(decorated.targets, name,
                                  [command EXCEPT !.permissions = updated.dest,
                                                  !.applied = Append(@, s)]),
                  result |-> "applied"]
    /\ UNCHANGED <<syncVars, invokeVars, dumpVars, rewriteVars, startVars, declVars,
                   reentrantVars, described, choice_classes>>

NextSetters ==
    \/ \E s \in SetterNames : MakeSetter(s)
    \/ \E name \in CommandNames, gid \in Guilds \cup {"None"} : DeclareTarget(name, gid)
    \/ \E s \in SetterNames, name \in CommandNames : ApplySetter(s, name)

SpecSetters == Init /\ [][NextSetters]_vars

(***************************************************************************)
(* Dumping: command trees are declared and dumped any number of times.     *)
(***************************************************************************)
ParameterMenu ==
    {<<>>,
     <<Parameter("text", "str", option("Text.", TRUE, <<>>, "None", "None"))>>,
     <<Parameter("text", "str",
                 option("Text.", TRUE, <<<<"A", Value("str", <<"a">>)>>>>, "None", "None")),
       Parameter("who", "User", option("Who.", FALSE, <<>>, "None", "None"))>>}

\* @client.command() on a callback named ping
DeclareCommand(parameters, default_permission) ==
    /\ ~\E i \in 1..Len(nodes) : nodes[i].name = "ping"
    /\ nodes' = Append(nodes, NewSlashCommand("ping", "None", "None", parameters,
                                              guild_id, default_permission, <<>>))
    /\ commands' = StoreCommand(commands, nodes', Len(nodes'))
    /\ UNCHANGED <<guild_id, by_id, task, remote, calls, responses, delivered,
                   invokeVars, dumpVars, rewriteVars, extraVars>>

\* class G(CommandGroup) with sub-command a and sub-group B of b and x
DeclareGroup(parameters, default_permission) ==
    /\ ~\E i \in 1..Len(nodes) : nodes[i].name = "g"
    /\ LET off == Len(nodes)
           ns == nodes \o
                 <<NewSlashCommandGroup("g", "Group.", guild_id, default_permission, <<>>),
                   NewSlashSubCommand("a", "None", "None", parameters),
                   NewSlashCommandSubGroup("b", "Sub-group."),
                   NewSlashSubCommand("b_b", "b", "None", <<>>),
                   NewSlashSubCommand("x", "None", "None", parameters)>>
       IN /\ nodes' = GroupMetaNew(GroupMetaNew(ns, off + 3, <<off + 4, off + 5>>, 1),
                                   off + 1, <<off + 2, off + 3>>, 1)
          /\ commands' = StoreCommand(commands, nodes', off + 1)
    /\ UNCHANGED <<guild_id, by_id, task, remote, calls, responses, delivered,
                   invokeVars, dumpVars, rewriteVars, extraVars>>

\* node.dump() is called on a declared node
Dump(ref) ==
    /\ Len(dumps) < MaxDumps
    /\ ref \in 1..Len(nodes)
    /\ dumps' = Append(dumps, [ref |-> ref, data |-> DumpCall(nodes, ref).data])
    /\ nodes' = DumpCall(nodes, ref).nodes
    /\ UNCHANGED <<guild_id, commands, by_id, task, remote, calls, responses, delivered,
                   invokeVars, rewriteVars, extraVars>>

NextDump ==
    \/ \E parameters \in ParameterMenu, default_permission \in BOOLEAN :
          DeclareCommand(parameters, default_permission)
    \/ \E parameters \in ParameterMenu, default_permission \in BOOLEAN :
          DeclareGroup(parameters, default_permission)
    \/ \E ref \in 1..Len(nodes) : Dump(ref)

SpecDump == Init /\ [][NextDump]_vars

(***************************************************************************)
(* Rewriting: _handle_register_error is given an HTTP error and the batch  *)
(* whose bulk upsert it answers.                                           *)
(***************************************************************************)
\* str(i) for 0 <= i < 100
Decimal(i) ==
    IF i < 10 THEN <<DigitChar[i + 1]>>
    ELSE <<DigitChar[(i \div 10) + 1], DigitChar[(i % 10) + 1]>>

BadName == <<":", " ", "b", "a", "d", " ", "n", "a", "m", "e">>
InItem(i) == <<"I", "n", " ">> \o Decimal(i)

\* the batch of the first k commands of BatchNames
Batch(k) == [i \in 1..k |-> [name |-> BatchNames[i], description |-> "No description."]]

HTTPException(status, message) ==
    [cls |-> "HTTPException", uid |-> "http", status |-> status, message |-> message]

\* the failures of the model: every batch length with every index of the
\* batch, the batch of one ill-named command, two references in one message,
\* and messages without a reference or of another status
Failures ==
    {[error |-> HTTPException(400, InItem(p[2]) \o BadName), batch |-> Batch(p[1])] :
        p \in {q \in (1..MaxBatch) \X (0..(MaxBatch - 1)) : q[2] < q[1]}}
    \cup {[error |-> HTTPException(400, InItem(0) \o BadName),
           batch |-> <<[name |-> "bad cmd", description |-> "No description."]>>]}
    \cup {[error |-> HTTPException(400, InItem(i) \o BadName \o <<"\n">> \o InItem(j) \o BadName),
           batch |-> Batch(3)] : i \in 0..2, j \in 0..2}
    \cup {[error |-> HTTPException(st, m), batch |-> Batch(2)] :
            st \in {400, 500}, m \in {BadName, InItem(1) \o BadName}}

\* the bulk upsert of a batch fails and the error reaches the handler
Fail(f) ==
    /\ failure = NoFailure
    /\ failure' = f
    /\ UNCHANGED <<syncVars, invokeVars, dumpVars, raised, extraVars>>

\* _handle_register_error runs on the failure
Rewrite ==
    /\ failure # NoFailure
    /\ raised = {}
    /\ raised' = HandleRegisterError(failure.error, failure.batch)
    /\ UNCHANGED <<syncVars, invokeVars, dumpVars, failure, extraVars>>

NextRewrite ==
    \/ \E f \in Failures : Fail(f)
    \/ Rewrite

SpecRewrite == Init /\ [][NextRewrite]_vars

(***************************************************************************)
(* Properties of dump().                                                   *)
(***************************************************************************)
\* C6: a dump() call leaves the heap of nodes and the registry as they were
\* and returns the schema every earlier dump() of the same node returned
C6_DumpDeterministicAndPure ==
    [][Len(dumps') = Len(dumps) + 1 =>
          /\ nodes' = nodes
          /\ commands' = commands
          /\ \A i \in 1..Len(dumps) :
                dumps[i].ref = dumps'[Len(dumps')].ref
                    => dumps[i].data = dumps'[Len(dumps')].data]_vars

\* a group whose sub-command has options was dumped twice, to the same schema
C6_Witness ==
    /\ Len(dumps) = 2
    /\ dumps[1].ref = dumps[2].ref
    /\ nodes[dumps[1].ref].cls = "SlashCommandGroup"
    /\ Len(dumps[2].data.options) = 2
    /\ Len(dumps[2].data.options[1].options) >= 1
    /\ dumps[1].data = dumps[2].data

\* the schema `data` has the shape of the class of node ref, and so have the
\* schemas of its options array
RECURSIVE SchemaShape(_, _)
SchemaShape(ref, data) ==
    LET n == nodes[ref]
    IN /\ {"name", "description", "options"} \subseteq DOMAIN data
       /\ data.name = n.name
       /\ data.description = n.description
       /\ IF n.cls \in TopLevels
          THEN /\ "default_permission" \in DOMAIN data
               /\ data.default_permission \in BOOLEAN
               /\ "type" \notin DOMAIN data
          ELSE /\ "default_permission" \notin DOMAIN data
               /\ "type" \in DOMAIN data
               /\ data.type = IF n.cls = "SlashSubCommand"
                              THEN ApplicationCommandOptionType.sub_command
                              ELSE ApplicationCommandOptionType.sub_command_group
       /\ IF n.cls \in Callables
          THEN /\ Len(data.options) = Len(n.options)
               /\ \A i \in 1..Len(n.options) :
                     /\ data.options[i].name = n.options[i][2].name
                     /\ data.options[i].type = type_value(n.options[i][2].type)
                     /\ data.options[i].required = n.options[i][2].required
          ELSE /\ Len(data.options) = Len(n.subcommands)
               /\ \A i \in 1..Len(n.subcommands) :
                     SchemaShape(n.subcommands[i][2], data.options[i])

\* C27: a top-level schema has name, description and a boolean
\* default_permission and no type tag; a child schema has type 1 for a
\* sub-command and 2 for a sub-command group and no default_permission; the
\* options of a Callable are one schema per descriptor, in declaration order
C27_SchemaShape ==
    \A i \in 1..Len(dumps) : SchemaShape(dumps[i].ref, dumps[i].data)

\* the group g was dumped with its sub-command of two parameters and its
\* sub-group, and so was the command ping
C27_Witness ==
    /\ \E i \in 1..Len(dumps) :
          /\ nodes[dumps[i].ref].cls = "SlashCommandGroup"
          /\ Len(dumps[i].data.options) = 2
          /\ Len(dumps[i].data.options[1].options) = 2
          /\ dumps[i].data.options[2].type = ApplicationCommandOptionType.sub_command_group
    /\ \E i \in 1..Len(dumps) :
          /\ nodes[dumps[i].ref].cls = "SlashCommand"
          /\ Len(dumps[i].data.options) = 2

(***************************************************************************)
(* Properties of the diagnostic rewrite.                                   *)
(***************************************************************************)
\* the decimal number that starts at s[i], and the position that follows it
RECURSIVE ReadNumber(_, _, _)
ReadNumber(s, i, acc) ==
    IF i <= Len(s) /\ s[i] \in Digits
    THEN ReadNumber(s, i + 1, 10 * acc + DigitValue(s[i]))
    ELSE [value |-> acc, next |-> i]

\* the message with every "In <i>", i an index of the batch, replaced by
\* "In <name of batch[i]>"
RECURSIVE ByName(_, _, _)
ByName(s, i, batch) ==
    IF i > Len(s) THEN <<>>
    ELSE IF /\ i + 3 <= Len(s)
            /\ SubSeq(s, i, i + 2) = <<"I", "n", " ">>
            /\ s[i + 3] \in Digits
            /\ ReadNumber(s, i + 3, 0).value < Len(batch)
         THEN LET number == ReadNumber(s, i + 3, 0)
              IN <<"I", "n", " ">> \o Chars(batch[number.value + 1].name)
                    \o ByName(s, number.next, batch)
         ELSE <<s[i]>> \o ByName(s, i + 1, batch)

\* C7: the error re-raised for a 400 carries the original message with each
\* "In <i>" replaced by "In <name of batch[i]>", whatever the number of digits
\* of i
C7_EveryIndexRewrittenByName ==
    \A e \in raised :
        failure.error.status = 400 =>
            e.message = ByName(failure.error.message, 1, failure.batch)

(***************************************************************************)
(* Properties of invocation routing.                                       *)
(***************************************************************************)
\* the handler call of a trace whose body ran and raised
HandlerRaised(tr) ==
    /\ tr.outcome # "return"
    /\ \E i \in 1..Len(tr.called) : tr.called[i].ran

\* C2: whenever the routed handler raises E, at whatever depth, exactly one
\* SlashCommandInvokeError is dispatched on slash_command_error, its original
\* is E itself, and nothing is thrown back to the event-delivery layer
C2_HandlerErrorIsWrappedOnce ==
    \A j \in 1..Len(trace) :
        HandlerRaised(trace[j]) =>
            /\ Len(trace[j].signals) = 1
            /\ trace[j].signals[1].event = "slash_command_error"
            /\ trace[j].signals[1].error.cls = "SlashCommandInvokeError"
            /\ trace[j].signals[1].error.original = Exc("Exception", trace[j].outcome)
            /\ trace[j].thrown = NoExc

\* the handler of the sub-command of a sub-group raised and was reported
C2_Witness ==
    \E j \in 1..Len(trace) :
        /\ HandlerRaised(trace[j])
        /\ Len(trace[j].entered) = 3
        /\ Len(trace[j].signals) = 1
        /\ trace[j].signals[1].error.original = Exc("Exception", "E2")

Children(ref) == {nodes[ref].subcommands[i][2] : i \in 1..Len(nodes[ref].subcommands)}

\* the option map the k-th node entered by a trace processed
ProcessedMap(tr, k) == OptionMap(FullOptions(tr.interaction, tr.entered[k].options), 1, <<>>)

C4_ScalarCoercion ==
    \A j \in 1..Len(trace) : \A i \in 1..Len(trace[j].coerced) :
        LET c == trace[j].coerced[i]
        IN /\ (DOMAIN c.data = {} \/ "value" \notin DOMAIN c.data) =>
                (c.value = None /\ c.exc = NoExc /\ c.lookups = <<>>)
           /\ ("value" \in DOMAIN c.data /\ c.data.type \in ScalarTypes) =>
                (c.value = c.data.value /\ c.exc = NoExc /\ c.lookups = <<>>)

\* without a guild, the required text option was sent the empty string and
\* the who option an entry without a value
C4_Witness ==
    \E j \in 1..Len(trace) :
        /\ ~trace[j].interaction.guild.present
        /\ Len(trace[j].coerced) = 2
        /\ trace[j].coerced[1].option.required
        /\ "value" \in DOMAIN trace[j].coerced[1].data
        /\ trace[j].coerced[1].value = Value("str", <<>>)
        /\ DOMAIN trace[j].coerced[2].data # {}
        /\ "value" \notin DOMAIN trace[j].coerced[2].data
        /\ trace[j].coerced[2].value = None

ArgumentNames(n) == {n.options[i][2].argument_name : i \in 1..Len(n.options)}

Incoming(tr, k) ==
    IF k = 1 THEN (IF DOMAIN tr.interaction.data = {} THEN <<>>
                   ELSE PayloadOptions(tr.interaction.data))
    ELSE tr.entered[k].options

NamesChild(ref, options) ==
    \E i \in 1..Len(options) : \E c \in Children(ref) : options[i].name = nodes[c].name

\* C9: a Container invoked with an options list naming none of its children
\* calls no handler, raises nothing and emits no error signal
C9_UnmatchedIsNoOp ==
    \A j \in 1..Len(trace) : \A k \in 1..Len(trace[j].entered) :
        (/\ nodes[trace[j].entered[k].node].cls \in Containers
         /\ ~NamesChild(trace[j].entered[k].node, Incoming(trace[j], k)))
        => /\ trace[j].called = <<>>
           /\ trace[j].exc = NoExc
           /\ trace[j].signals = <<>>
           /\ trace[j].thrown = NoExc

GuildTypes ==
    {ApplicationCommandOptionType.user, ApplicationCommandOptionType.channel,
     ApplicationCommandOptionType.role, ApplicationCommandOptionType.mentionable}

\* the option coerced by a trace entry has a value of a guild-scoped type and
\* the event has no guild
NeedsMissingGuild(tr, c) ==
    /\ "value" \in DOMAIN c.data
    /\ c.data.type \in GuildTypes
    /\ ~tr.interaction.guild.present

\* C13: a present user, role, channel or mentionable value of an event
\* without a guild raises ValueError, before any cache lookup or fetch, and
\* the handler is not called
C13_NoGuildIsValueError ==
    \A j \in 1..Len(trace) : \A i \in 1..Len(trace[j].coerced) :
        NeedsMissingGuild(trace[j], trace[j].coerced[i]) =>
            /\ trace[j].coerced[i].exc = Exc("ValueError", "no_guild")
            /\ trace[j].coerced[i].lookups = <<>>
            /\ trace[j].lookups = <<>>
            /\ trace[j].called = <<>>

\* ping was sent a text and a mentionable value without a guild: the text
\* was coerced, the mentionable raised
C13_Witness ==
    \E j \in 1..Len(trace) :
        /\ Len(trace[j].coerced) = 2
        /\ trace[j].coerced[1].exc = NoExc
        /\ NeedsMissingGuild(trace[j], trace[j].coerced[2])
        /\ trace[j].coerced[2].data.type = ApplicationCommandOptionType.mentionable
        /\ trace[j].exc = Exc("ValueError", "no_guild")

\* the coercion of an option of the trace raised the resolution error
ResolutionErrorRaised(tr) ==
    \E i \in 1..Len(tr.coerced) : tr.coerced[i].exc = Exc("ValueError", "no_guild")

\* C17 as stated: a resolution error raised during coercion reaches the
\* dispatcher as the original of a SlashCommandInvokeError, which is emitted
\* on the error signal and not thrown
C17_ResolutionErrorIsWrapped ==
    \A j \in 1..Len(trace) :
        ResolutionErrorRaised(trace[j]) =>
            /\ trace[j].signals =
                  <<[event |-> "slash_command_error",
                     error |-> SlashCommandInvokeError(Exc("ValueError", "no_guild"))]>>
            /\ trace[j].thrown = NoExc

\* C17 amended: a resolution error raised during coercion leaves
\* on_interaction as the ValueError itself, and nothing is emitted on the
\* error signal
C17_ResolutionErrorPropagatesBare ==
    \A j \in 1..Len(trace) :
        ResolutionErrorRaised(trace[j]) =>
            /\ trace[j].thrown = Exc("ValueError", "no_guild")
            /\ trace[j].signals = <<>>

\* ping was sent a user value without a guild, alone
C17_Witness ==
    \E j \in 1..Len(trace) :
        /\ ~trace[j].interaction.guild.present
        /\ Len(trace[j].coerced) = 2
        /\ trace[j].coerced[1].data = <<>>
        /\ "value" \in DOMAIN trace[j].coerced[2].data
        /\ trace[j].coerced[2].data.type = ApplicationCommandOptionType.user
        /\ ResolutionErrorRaised(trace[j])
        /\ trace[j].thrown.cls = "ValueError"

\* the exception of the trace was raised upstream of the handler call
UpstreamFailure(tr) ==
    /\ tr.called = <<>>
    /\ \/ tr.exc.cls # "None"
       \/ tr.thrown.cls # "None"

\* C18: a SlashCommandInvokeError exists only where the handler was called
\* and raised; a failure of routing, of coercion, of a member fetch or of
\* the preparation of the context is thrown as it is, with no error signal
C18_OnlyHandlerErrorsAreWrapped ==
    \A j \in 1..Len(trace) :
        /\ (trace[j].signals # <<>> \/ trace[j].exc.cls = "SlashCommandInvokeError") =>
              trace[j].called # <<>>
        /\ UpstreamFailure(trace[j]) =>
              /\ trace[j].signals = <<>>
              /\ trace[j].thrown.cls \notin {"None", "SlashCommandInvokeError"}

\* the lookups of a user value: the member cache, then the network only
\* when the cache has no such member
UserOrder(guild, id) ==
    IF id \in guild.members THEN <<Lookup("get_member", id)>>
    ELSE <<Lookup("get_member", id), Lookup("fetch_member", id)>>

\* the entries of the traces that coerced a present value of a guild-scoped
\* type in a guild
GuildCoercions ==
    {c \in UNION {{[entry |-> trace[j].coerced[i], guild |-> trace[j].interaction.guild] :
                      i \in 1..Len(trace[j].coerced)} : j \in 1..Len(trace)} :
        /\ "value" \in DOMAIN c.entry.data
        /\ c.entry.data.type \in GuildTypes
        /\ c.guild.present}

\* C19: a user value is looked up in the member cache and fetched only on a
\* miss; a mentionable value is looked up as a role and, when there is no
\* such role, goes on as a user value; a role or channel value is one cache
\* lookup, never a fetch, and None on a miss
C19_ResolutionOrder ==
    \A c \in GuildCoercions :
        LET type == c.entry.data.type
            id == PyInt(c.entry.data.value.v)
            lookups == c.entry.lookups
        IN /\ type = ApplicationCommandOptionType.user =>
                 lookups = UserOrder(c.guild, id)
           /\ type = ApplicationCommandOptionType.mentionable =>
                 /\ id \in c.guild.roles =>
                       /\ lookups = <<Lookup("get_role", id)>>
                       /\ c.entry.value = Object("Role", id)
                 /\ id \notin c.guild.roles =>
                       lookups = <<Lookup("get_role", id)>> \o UserOrder(c.guild, id)
           /\ type = ApplicationCommandOptionType.role =>
                 /\ lookups = <<Lookup("get_role", id)>>
                 /\ id \notin c.guild.roles => c.entry.value = None
           /\ type = ApplicationCommandOptionType.channel =>
                 /\ lookups = <<Lookup("get_channel", id)>>
                 /\ id \notin c.guild.channels => c.entry.value = None

\* a mentionable value that is no role and no cached member was fetched
C19_Witness ==
    \E c \in GuildCoercions :
        /\ c.entry.data.type = ApplicationCommandOptionType.mentionable
        /\ c.entry.lookups = <<Lookup("get_role", 9), Lookup("get_member", 9),
                               Lookup("fetch_member", 9)>>
        /\ c.entry.value = Object("Member", 9)

\* what __call__ returns or raises for the payload entry of a trace entry
\* when its type field is the type code declared by the descriptor
ByDeclaredType(c, guild) ==
    OptionCall(c.option, [c.data EXCEPT !.type = type_value(c.option.type)], guild)

\* C20: the value resolved for a present value is the one the descriptor's
\* declared type code selects, whatever the type field of the payload entry
C20_CoercionByDeclaredType ==
    \A j \in 1..Len(trace) : \A i \in 1..Len(trace[j].coerced) :
        LET c == trace[j].coerced[i]
        IN "value" \in DOMAIN c.data =>
              /\ c.value = ByDeclaredType(c, trace[j].interaction.guild).value
              /\ c.exc = ByDeclaredType(c, trace[j].interaction.guild).exc

\* the names of the children of the top-level node of the event that its
\* option entries name
NamedChildren(tr) ==
    LET ref == Get(by_id, PyInt(tr.interaction.data.id))
    IN {i \in 1..Len(nodes[ref].subcommands) :
           \E k \in 1..Len(tr.interaction.data.options) :
              tr.interaction.data.options[k].name = nodes[ref].subcommands[i][1]}

\* C29: an event has at most one handler called, once, also when several of
\* its option entries name registered children; an error of the handler is
\* emitted once on the error signal, and the handler is not called again
C29_OneShot ==
    \A j \in 1..Len(trace) :
        /\ Len(trace[j].called) <= 1
        /\ Len(trace[j].signals) <= 1
        /\ trace[j].signals # <<>> => trace[j].thrown = NoExc
        /\ (trace[j].called # <<>> /\ trace[j].outcome # "return") =>
              /\ Len(trace[j].signals) = 1
              /\ Len(trace[j].called) = 1

\* an event whose entries name both children of g called one handler, which
\* raised
C29_Witness ==
    \E j \in 1..Len(trace) :
        /\ "id" \in DOMAIN trace[j].interaction.data
        /\ "options" \in DOMAIN trace[j].interaction.data
        /\ HasKey(by_id, PyInt(trace[j].interaction.data.id))
        /\ Cardinality(NamedChildren(trace[j])) = 2
        /\ Len(trace[j].called) = 1
        /\ trace[j].outcome = "E1"
        /\ Len(trace[j].signals) = 1

(***************************************************************************)
(* Properties of parameter descriptors.                                    *)
(***************************************************************************)
\* the type T of an annotation T | None
Unwrapped(annotation) ==
    CASE annotation = "Optional[int]" -> "int"
      [] annotation = "Optional[User]" -> "User"
      [] OTHER -> "None"

\* the parameter was declared with its annotation alone: no type= override
\* and no choices
Plain(d) == d.parameter.default.type = "None" /\ d.parameter.default.choices = <<>>

\* the declaration or the dump of the descriptor raised TypeError
Rejected(d) ==
    \/ d.option.cls = "TypeError"
    \/ d.dump = <<[cls |-> "TypeError"]>>

\* C21: a parameter annotated T | None gives a descriptor that is not
\* required and dumps the type code of T; Mentionable dumps 9; any other
\* union and any unsupported type is a TypeError at declaration or at dump
C21_WireTypeResolution ==
    \A i \in 1..Len(described) :
        LET d == described[i]
            annotation == d.parameter.annotation
        IN (Plain(d) /\ (d.dump # <<>> \/ d.option.cls = "TypeError")) =>
              /\ Unwrapped(annotation) # "None" =>
                    /\ ~Rejected(d)
                    /\ d.option.required = FALSE
                    /\ d.dump[1].type = type_value(Unwrapped(annotation))
              /\ annotation = "Mentionable" =>
                    /\ ~Rejected(d)
                    /\ d.dump[1].type = ApplicationCommandOptionType.mentionable
              /\ annotation \in {"Union[int, str]", "list"} => Rejected(d)

\* the type a parameter declares: the type= of option(), else the
\* annotation, else str
DeclaredType(parameter) ==
    IF parameter.default.type # "None" THEN parameter.default.type
    ELSE IF parameter.annotation # "None" THEN parameter.annotation
    ELSE "str"

\* the kind of Python value that a scalar type code stands for
ScalarKind(code) ==
    CASE code = ApplicationCommandOptionType.string -> "str"
      [] code = ApplicationCommandOptionType.integer -> "int"
      [] code = ApplicationCommandOptionType.number -> "float"
      [] OTHER -> "None"

\* the choices of the parameter are allowed: the type is string, integer or
\* number and every value is of that type
ChoicesAllowed(parameter) ==
    /\ ScalarKind(type_value(DeclaredType(parameter))) # "None"
    /\ \A i \in 1..Len(parameter.default.choices) :
          parameter.default.choices[i][2].kind =
             ScalarKind(type_value(DeclaredType(parameter)))

\* C22: a descriptor with a non-empty choice list is constructed exactly
\* when its type is string, integer or number and every choice value is of
\* that type; any other combination is a declaration error
C22_ChoiceConstraint ==
    \A i \in 1..Len(described) :
        described[i].parameter.default.choices # <<>> =>
            (described[i].option.cls = "CommandOption"
                <=> ChoicesAllowed(described[i].parameter))

(***************************************************************************)
(* Properties of command trees.                                            *)
(***************************************************************************)
\* the classes of the children of node ref
ChildClasses(ref) ==
    {nodes[nodes[ref].subcommands[i][2]].cls : i \in 1..Len(nodes[ref].subcommands)}

\* the nodes stored in the registry
Registered ==
    UNION {{commands[i][2][j][2] : j \in 1..Len(commands[i][2])} : i \in 1..Len(commands)}

\* a schema holds a sub-command group inside a sub-command group
RECURSIVE NestsGroups(_, _)
NestsGroups(data, inside) ==
    \E i \in 1..Len(DataOptions(data)) :
        LET child == data.options[i]
            group == "type" \in DOMAIN child
                     /\ child.type = ApplicationCommandOptionType.sub_command_group
        IN \/ group /\ inside
           \/ "options" \in DOMAIN child /\ NestsGroups(child, inside \/ group)

\* C23: a SlashCommandGroup holds sub-commands and sub-groups only, a
\* SlashCommandSubGroup holds sub-commands only, and no dumped schema nests
\* a sub-command group inside a sub-command group
C23_NestingDepth ==
    /\ \A ref \in 1..Len(nodes) :
          /\ nodes[ref].cls = "SlashCommandGroup" =>
                ChildClasses(ref) \subseteq {"SlashSubCommand", "SlashCommandSubGroup"}
          /\ nodes[ref].cls = "SlashCommandSubGroup" =>
                ChildClasses(ref) \subseteq {"SlashSubCommand"}
    /\ \A ref \in Registered : ~NestsGroups(dump(nodes, ref), FALSE)

\* the keys of a dict are pairwise distinct
DistinctKeys(d) == \A i, j \in 1..Len(d) : d[i][1] = d[j][1] => i = j

\* no two schemas of an options array have the same name, at any depth
RECURSIVE DistinctSiblings(_)
DistinctSiblings(data) ==
    /\ \A i, j \in 1..Len(DataOptions(data)) :
          data.options[i].name = data.options[j].name => i = j
    /\ \A i \in 1..Len(DataOptions(data)) : DistinctSiblings(data.options[i])

\* C24: every registry entry _commands[scope][n] is a node of name n and of
\* guild scope `scope`, every child stored under n has name n, no scope and
\* no container has two entries of one name, and no batch and no options
\* array has two siblings of one name
C24_SiblingNamesUnique ==
    /\ DistinctKeys(commands)
    /\ \A i \in 1..Len(commands) :
          /\ DistinctKeys(commands[i][2])
          /\ \A j \in 1..Len(commands[i][2]) :
                /\ nodes[commands[i][2][j][2]].name = commands[i][2][j][1]
                /\ nodes[commands[i][2][j][2]].guild_id = commands[i][1]
    /\ \A ref \in 1..Len(nodes) :
          /\ DistinctKeys(nodes[ref].subcommands)
          /\ \A j \in 1..Len(nodes[ref].subcommands) :
                nodes[nodes[ref].subcommands[j][2]].name = nodes[ref].subcommands[j][1]
          /\ DistinctSiblings(dump(nodes, ref))

\* a second top-level node of the same name was declared in a scope, and
\* the registry holds the second under that name
C24_Witness ==
    /\ \E i \in 1..Len(commands) : \E j \in 1..Len(commands[i][2]) :
          \E ref \in 1..Len(nodes) :
             /\ ref < commands[i][2][j][2]
             /\ nodes[ref].cls \in TopLevels
             /\ nodes[ref].name = commands[i][2][j][1]
             /\ nodes[ref].guild_id = commands[i][1]

(***************************************************************************)
(* Properties of the Choices classes.                                      *)
(***************************************************************************)
\* the entries a class body declares: the public attributes that are a str
\* or a Choice
Entries(attrs) ==
    {i \in 1..Len(attrs) : attrs[i][1] # "_p" /\ attrs[i][2].cls \in {"str", "Choice"}}

\* the display name and the value the entry i of a body declares
Declared(attrs, i) ==
    IF attrs[i][2].cls = "str"
    THEN [name |-> attrs[i][2].value, value |-> Value("str", <<attrs[i][1]>>)]
    ELSE [name |-> attrs[i][2].name, value |-> attrs[i][2].value]

OneType(attrs) ==
    \A i, j \in Entries(attrs) : Declared(attrs, i).value.kind = Declared(attrs, j).value.kind

DistinctValues(attrs) ==
    \A i, j \in Entries(attrs) : Declared(attrs, i).value = Declared(attrs, j).value => i = j

\* C28: in a class with at least one entry, one value type and pairwise
\* distinct values, the lookup by the symbolic name of an entry and the
\* lookup by its value both return the entry with its display name and
\* value, the shorthand taking the identifier as value and the string as
\* display name; a class of mixed value types or without entry is rejected
C28_ChoiceIndexing ==
    \A c \in 1..Len(choice_classes) :
        LET attrs == choice_classes[c].attrs
            class == choice_classes[c].class
        IN /\ (Entries(attrs) = {} \/ ~OneType(attrs)) <=> class.cls # "Choices"
           /\ Entries(attrs) = {} => class.cls = "ValueError"
           /\ (Entries(attrs) # {} /\ ~OneType(attrs)) => class.cls = "TypeError"
           /\ DistinctValues(attrs) =>
                 \A l \in choice_classes[c].lookups : \A i \in Entries(attrs) :
                    (\/ l.by = "name" /\ l.name = attrs[i][1]
                     \/ l.by = "value" /\ l.value = Declared(attrs, i).value)
                    => /\ l.result.cls = "Choice"
                       /\ l.result.choice = Choice(Declared(attrs, i).name,
                                                   Declared(attrs, i).value)

\* the class of the shorthand entries a = "X" and b = "Y" was looked up by
\* the name a and by the value "b"
C28_Witness ==
    \E c \in 1..Len(choice_classes) :
        /\ choice_classes[c].attrs = <<<<"a", StrAttr("X")>>, <<"b", StrAttr("Y")>>>>
        /\ \E l \in choice_classes[c].lookups :
              l.by = "name" /\ l.name = "a"
              /\ l.result.choice = Choice(Value("str", <<"X">>), Value("str", <<"a">>))
        /\ \E l \in choice_classes[c].lookups :
              l.by = "value" /\ l.value = Value("str", <<"b">>)
              /\ l.result.choice = Choice(Value("str", <<"Y">>), Value("str", <<"b">>))

(***************************************************************************)
(* Properties of declaration.                                              *)
(***************************************************************************)
\* the scope a declaration made with guild id gid belongs to
DeclaredScope(gid) == IF gid = GUILD_ID_DEFAULT THEN guild_id ELSE gid

\* the nodes the registry holds under a scope
StoredUnder(scope) == Range(Values(GetOr(commands, scope, <<>>)))

\* C14: a node declared without a guild id of its own is stored under the
\* client's guild_id, one declared with a guild id, None included, under
\* that guild id; it is stored under no other scope, and under its own until
\* a later declaration of the same name and scope takes its place
C14_StoredUnderDeclaredScope ==
    \A i \in 1..Len(declarations) :
        LET d == declarations[i]
            scope == DeclaredScope(d.guild_id)
        IN /\ nodes[d.ref].guild_id = scope
           /\ \A k \in 1..Len(commands) :
                 d.ref \in StoredUnder(commands[k][1]) => commands[k][1] = scope
           /\ \/ d.ref \in StoredUnder(scope)
              \/ \E j \in (i + 1)..Len(declarations) :
                    /\ DeclaredScope(declarations[j].guild_id) = scope
                    /\ nodes[declarations[j].ref].name = nodes[d.ref].name

\* on a client whose guild_id is g1, one node was declared with None and is
\* stored globally, another without a guild id and is stored under g1
C14_Witness ==
    /\ guild_id = "g1"
    /\ \E i, j \in 1..Len(declarations) :
          /\ declarations[i].guild_id = "None"
          /\ declarations[i].ref \in StoredUnder("None")
          /\ nodes[declarations[i].ref].cls = "SlashCommand"
          /\ declarations[j].guild_id = GUILD_ID_DEFAULT
          /\ declarations[j].ref \in StoredUnder("g1")
          /\ nodes[declarations[j].ref].cls = "SlashCommandGroup"

(***************************************************************************)
(* Properties of re-entrant invocation.                                    *)
(***************************************************************************)
\* the arguments _process_option_data computes from the event of a coroutine
\* alone
OwnArguments(c) ==
    CoerceArguments(c.node, nodes[c.node].options, c.option_map, c.interaction.guild,
                    [arguments |-> <<>>, coerced |-> <<>>, lookups |-> <<>>,
                     exc |-> NoExc]).arguments

\* C16: no step of an invocation changes the registry, the by-id index or
\* any node, and every handler is called with the interaction of its own
\* event and the arguments coerced from that event alone, however the
\* invocations interleave
C16_RoutingReadOnlyAndReentrant ==
    [][/\ nodes' = nodes
       /\ commands' = commands
       /\ by_id' = by_id
       /\ \A c \in 1..Len(inv') :
             inv'[c].call # <<>> =>
                /\ inv'[c].call[1].interaction = inv'[c].interaction
                /\ inv'[c].call[1].arguments = OwnArguments(inv'[c])
                /\ inv'[c].call[1].prepend_params = nodes[inv'[c].node].prepend_params]_vars

\* the second /ping arrived while the first was in its coercion loop, and
\* both handlers were called, with different arguments
C16_Witness ==
    /\ Len(inv) = 2
    /\ inv[1].node = inv[2].node
    /\ inv[1].call # <<>>
    /\ inv[2].call # <<>>
    /\ inv[2].pc = "done"
    /\ inv[1].pc = "handler"
    /\ inv[1].call[1].arguments # inv[2].call[1].arguments

(***************************************************************************)
(* Properties of start-up.                                                 *)
(***************************************************************************)
InFlight(t) == task[t].pc \in {"await_upsert", "await_perms"}

HandlerCalled == \E j \in 1..Len(trace) : trace[j].called # <<>>

\* every top-level node of the registry has been given its id
AllBound ==
    \A i \in 1..Len(commands) : \A k \in 1..Len(commands[i][2]) :
        nodes[commands[i][2][k][2]].id # NoId

\* C11: no handler is called for an interaction until a synchronization has
\* run to its end, the bulk upsert and the id binding of every scope done
C11_NoHandlerBeforeSynchronized ==
    HandlerCalled => (AllBound /\ \E t \in Tasks : task[t].pc = "done")

\* a handler was called, after the login of start() had returned, while a
\* second login was still under way
C11_Witness ==
    /\ HandlerCalled
    /\ task[TaskOrder[1]].pc = "done"
    /\ \E t \in Tasks : InFlight(t)

(***************************************************************************)
(* Properties of the registration synchronizer.                            *)
(***************************************************************************)

\* the remote API has answered a bulk upsert of the node's scope with this
\* id for the node's name
Returned(ref, id) ==
    \E t \in Tasks : \E i \in 1..Len(responses[t]) :
        /\ responses[t][i].scope = nodes[ref].guild_id
        /\ \E k \in 1..Len(responses[t][i].created) :
              /\ responses[t][i].created[k].name = nodes[ref].name
              /\ PyInt(responses[t][i].created[k].id) = id

\* C15: the by-id index and the id of a node are filled only from what a
\* successful bulk upsert of the node's scope returned; before any such
\* return, and after declarations alone, the index has no entry for the node
\* and its id is None
C15_IdsOnlyFromRegistration ==
    /\ \A i \in 1..Len(by_id) : Returned(by_id[i][2], by_id[i][1])
    /\ \A ref \in 1..Len(nodes) : nodes[ref].id # NoId => Returned(ref, nodes[ref].id)
    /\ AllIdle => (by_id = <<>> /\ \A ref \in 1..Len(nodes) : nodes[ref].id = NoId)

\* the upsert of one scope has returned and bound its command, the upsert
\* of the other has failed and its command has no id
C15_Witness ==
    /\ by_id # <<>>
    /\ \E t \in Tasks : task[t].pc = "failed" /\ Len(responses[t]) = 1
    /\ \A t \in Tasks : task[t].pc \in {"idle", "failed"}
    /\ \E ref \in 1..Len(nodes) :
          /\ ref \in StoredUnder(nodes[ref].guild_id)
          /\ nodes[ref].id = NoId
          /\ \A i \in 1..Len(by_id) : by_id[i][2] # ref

\* the bulk upsert calls a login() has sent, in order
UpsertCalls(t) ==
    SelectSeq(calls, LAMBDA c : c.task = t /\ c.op \in {"bulk_upsert_guild_commands",
                                                        "bulk_upsert_global_commands"})

\* C12: the j-th bulk upsert of a synchronization is addressed to the j-th
\* scope of the registry (the global endpoint for None, the guild's own
\* otherwise) and carries the dump of exactly the nodes stored under that
\* scope, in registry order; a finished synchronization has sent one call for
\* each scope
C12_OneUpsertPerScope ==
    \A t \in Tasks :
        /\ Len(UpsertCalls(t)) <= Len(commands)
        /\ task[t].pc = "done" => Len(UpsertCalls(t)) = Len(commands)
        /\ \A j \in 1..Len(UpsertCalls(t)) :
              LET call == UpsertCalls(t)[j]
                  scope == commands[j][1]
                  stored == commands[j][2]
              IN /\ call.guild = scope
                 /\ call.op = IF scope = "None" THEN "bulk_upsert_global_commands"
                              ELSE "bulk_upsert_guild_commands"
                 /\ call.payload = [k \in 1..Len(stored) |-> dump(nodes, stored[k][2])]
                 /\ \A k \in 1..Len(stored) : nodes[stored[k][2]].guild_id = scope

\* a synchronization ended having submitted a command globally and another
\* to a guild
C12_Witness ==
    \E t \in Tasks :
        /\ task[t].pc = "done"
        /\ Len(UpsertCalls(t)) = 2
        /\ \A j \in 1..2 : Len(UpsertCalls(t)[j].payload) = 1

\* C1: after a successful synchronization, for every scope and every
\* (name, id) its bulk upsert returned, the by-id index maps id to the node
\* registered under that name in that scope, and that node's id is id.
C1_IdsBoundToNamedNodes ==
    \A t \in Tasks :
        task[t].pc = "done" =>
            \A k \in 1..Len(responses[t]) :
                LET scope_commands == Get(commands, responses[t][k].scope)
                    created == responses[t][k].created
                IN \A j \in 1..Len(created) :
                      LET command == Get(scope_commands, created[j].name)
                      IN /\ HasKey(by_id, PyInt(created[j].id))
                         /\ Get(by_id, PyInt(created[j].id)) = command
                         /\ nodes[command].id = PyInt(created[j].id)

\* a synchronization ended well after a scope answered with two commands,
\* ping bound to 101 and echo to 102 or the reverse
C1_Witness ==
    \E t \in Tasks :
        /\ task[t].pc = "done"
        /\ \E k \in 1..Len(responses[t]) :
              /\ Len(responses[t][k].created) = 2
              /\ responses[t][k].created[1].name = "echo"
              /\ HasKey(by_id, 101) /\ HasKey(by_id, 102)

\* C8: when the bulk upsert of a scope fails with an HTTP error, the
\* synchronization ends by raising that same error: the step binds no id, adds
\* no by-id entry and sends no call, and the failed login never acts again.
C8_FailureIsReraised ==
    [][\A t \in Tasks :
          /\ (task[t].pc = "await_upsert" /\ task'[t].pc = "failed") =>
                /\ task'[t].raised.cls = "HTTPException"
                /\ task'[t].raised.uid = delivered'[t].uid
                /\ task'[t].raised.status = delivered'[t].status
                /\ nodes' = nodes
                /\ by_id' = by_id
                /\ calls' = calls
          /\ task[t].pc = "failed" =>
                /\ task'[t] = task[t]
                /\ calls' # calls => calls'[Len(calls')].task # t]_vars

\* a 400 was delivered for a scope holding a command with overrides, its
\* message was rewritten, and the command is neither bound nor indexed
C8_Witness ==
    \E t \in Tasks :
        /\ task[t].pc = "failed"
        /\ delivered[t].status = 400
        /\ task[t].raised.message # delivered[t].message
        /\ \E e \in Range(commands[task[t].idx][2]) :
              /\ nodes[e[2]].permissions # <<>>
              /\ nodes[e[2]].id = NoId
        /\ by_id = <<>>

\* C25: an id that is not None is not None in every later state, an entry of
\* the by-id index is never removed, and an id changes only by being bound
\* to an id the index then holds for the node
C25_IdsNeverReset ==
    [][/\ \A ref \in 1..Len(nodes) :
             /\ nodes[ref].id # NoId => nodes'[ref].id # NoId
             /\ nodes'[ref].id # nodes[ref].id =>
                   /\ HasKey(by_id', nodes'[ref].id)
                   /\ Get(by_id', nodes'[ref].id) = ref
       /\ \A i \in 1..Len(by_id) : HasKey(by_id', by_id[i][1])]_vars

\* two synchronizations have each bound two scopes, so that every node was
\* bound twice
C25_Witness ==
    /\ Len(nodes) = 2
    /\ \A ref \in 1..Len(nodes) : nodes[ref].id # NoId
    /\ \A t \in Tasks : Len(responses[t]) = 2

\* the bulk replace-permissions calls that login t sent for guild g
PermissionCalls(t, g) ==
    SelectSeq(calls, LAMBDA c : /\ c.task = t
                                /\ c.op = "bulk_edit_guild_application_command_permissions"
                                /\ c.guild = g)

\* the registered commands that have overrides for guild g
WithOverrides(g) == {ref \in Registered : HasKey(nodes[ref].permissions, g)}

\* C26: a synchronization sends, for each guild with an override, exactly
\* one bulk replace-permissions call, which carries the overrides of every
\* command that has some for the guild, whatever scope the command is
\* registered in; it sends none for a guild without overrides
C26_OnePermissionCallPerGuild ==
    \A t \in Tasks :
        task[t].pc = "done" =>
            \A g \in Guilds :
                IF WithOverrides(g) = {} THEN PermissionCalls(t, g) = <<>>
                ELSE /\ Len(PermissionCalls(t, g)) = 1
                     /\ {PermissionCalls(t, g)[1].payload[k].id :
                            k \in 1..Len(PermissionCalls(t, g)[1].payload)}
                        = {nodes[ref].id : ref \in WithOverrides(g)}

\* login t ended on the failure of a bulk upsert: it raised the HTTP error,
\* it sent one bulk upsert for each scope up to the failed one and none for
\* a later scope, and what the earlier scopes returned is still bound
FatalFailure(t) ==
    /\ task[t].raised.cls = "HTTPException"
    /\ task[t].raised.status = delivered[t].status
    /\ Len(UpsertCalls(t)) = task[t].idx
    /\ \A k \in 1..Len(UpsertCalls(t)) :
          UpsertCalls(t)[k].guild = commands[k][1]
    /\ Len(responses[t]) = task[t].idx - 1
    /\ \A k \in 1..Len(responses[t]) : \A j \in 1..Len(responses[t][k].created) :
          LET command == Get(Get(commands, responses[t][k].scope),
                             responses[t][k].created[j].name)
          IN /\ nodes[command].id # NoId
             /\ HasKey(by_id, PyInt(responses[t][k].created[j].id))

\* C30: when the bulk upsert of a scope fails, login ends with that error;
\* the failed call is not sent again, no bulk call is sent for a scope not
\* yet synchronized, and the ids bound for earlier scopes stay bound
C30_RegistrationFailureIsFatal ==
    [][\A t \in Tasks :
          /\ delivered'[t] # delivered[t] => task'[t].pc = "failed"
          /\ (task'[t].pc = "failed" /\ delivered'[t] # PermsError) => FatalFailure(t)'
          /\ task[t].pc = "failed" => task'[t] = task[t]]_vars

\* the upsert of the second scope failed after the first scope was bound,
\* and the other login has run to its end since
C30_Witness ==
    \E t \in Tasks :
        /\ task[t].pc = "failed"
        /\ delivered[t] # PermsError
        /\ task[t].idx = 2
        /\ Len(commands) = 2
        /\ responses[t][1].created # <<>>
        /\ \E u \in Tasks : task[u].pc = "done"

\* the guild the overrides of setter s go to on the command
TargetGuild(s, command) ==
    IF SetterMenu[s].cls = "AllPermissionsSetter" THEN SetterMenu[s].guild_id
    ELSE SetterGuild(SetterMenu[s], command)

\* the overrides of the setters applied to the command for guild g, in
\* application order
OverridesApplied(command, g) ==
    LET RECURSIVE Cat(_)
        Cat(i) ==
            IF i = 0 THEN <<>>
            ELSE Cat(i - 1) \o (IF TargetGuild(command.applied[i], command) = g
                                THEN SetterMenu[command.applied[i]].made ELSE <<>>)
    IN Cat(Len(command.applied))

\* C31: each command's override list for a guild holds exactly the overrides
\* of the setters applied to that command, in application order, and each
\* setter still stores the overrides it was made with
C31_TablesIndependent ==
    /\ \A i \in 1..Len(decorated.targets) :
          LET command == decorated.targets[i][2]
          IN /\ Range(Keys(command.permissions)) =
                   {TargetGuild(command.applied[k], command) : k \in 1..Len(command.applied)}
             /\ \A j \in 1..Len(command.permissions) :
                   Get(decorated.lists, command.permissions[j][2]) =
                       OverridesApplied(command, command.permissions[j][1])
    /\ \A i \in 1..Len(decorated.lists) :
          decorated.lists[i][2] = SetterMenu[decorated.lists[i][1]].made

\* C32: a child entered by Container routing processes exactly the entries
\* of the matched entry's nested options; with an empty or missing nested
\* list its option map is empty, never the event's top-level options
C32_ChildSeesNestedOnly ==
    \A j \in 1..Len(trace) : \A k \in 2..Len(trace[j].entered) :
        Range(trace[j].entered[k].keys) =
            {trace[j].entered[k].options[i].name : i \in 1..Len(trace[j].entered[k].options)}

\* the top-level commands declared for the scope
DeclaredFor(scope) ==
    {i \in 1..Len(nodes) : nodes[i].cls \in TopLevels /\ nodes[i].guild_id = scope}

\* the bulk upserts login t sent for the scope
UpsertsFor(t, scope) ==
    SelectSeq(UpsertCalls(t), LAMBDA c : c.guild = scope)

\* C33: a login that runs to its end has sent exactly one bulk upsert to the
\* global endpoint, with an empty batch when no global command was declared,
\* and exactly one to each guild a command was declared for; no login ever
\* sends a bulk upsert to a guild without a declared command
C33_GlobalScopeAlwaysReplaced ==
    \A t \in Tasks :
        /\ \A j \in 1..Len(UpsertCalls(t)) :
              \/ UpsertCalls(t)[j].guild = "None"
              \/ DeclaredFor(UpsertCalls(t)[j].guild) # {}
        /\ task[t].pc = "done" =>
              /\ Len(UpsertsFor(t, "None")) = 1
              /\ UpsertsFor(t, "None")[1].op = "bulk_upsert_global_commands"
              /\ DeclaredFor("None") = {} => UpsertsFor(t, "None")[1].payload = <<>>
              /\ \A g \in Guilds :
                    Len(UpsertsFor(t, g)) = IF DeclaredFor(g) = {} THEN 0 ELSE 1

\* a login ended with commands declared for a guild only: it sent the guild
\* its batch and the global endpoint an empty one
C33_Witness ==
    \E t \in Tasks :
        /\ task[t].pc = "done"
        /\ DeclaredFor("None") = {}
        /\ \E g \in Guilds : DeclaredFor(g) # {} /\ Len(UpsertsFor(t, g)) = 1
        /\ Len(UpsertsFor(t, "None")) = 1
        /\ UpsertsFor(t, "None")[1].payload = <<>>

\* the node and everything below it
RECURSIVE Subtree(_)
Subtree(ref) == {ref} \cup UNION {Subtree(c) : c \in Children(ref)}

\* the event names a command the by-id index knows
Dispatchable(interaction) ==
    /\ interaction.type = "application_command"
    /\ DOMAIN interaction.data # {}
    /\ "id" \in DOMAIN interaction.data
    /\ HasKey(by_id, PyInt(interaction.data.id))

\* C34: an event carrying command id X invokes only handlers of the subtree
\* of the top-level node the by-id index binds to X; an event of another
\* type, without data, without an id or with an unbound id invokes no
\* handler and emits no slash_command_error
C34_DispatchIsolation ==
    \A j \in 1..Len(trace) :
        IF Dispatchable(trace[j].interaction)
        THEN /\ \A i \in 1..Len(trace[j].called) :
                   trace[j].called[i].node \in
                       Subtree(Get(by_id, PyInt(trace[j].interaction.data.id)))
             /\ \A k \in 1..Len(trace[j].entered) :
                   trace[j].entered[k].node \in
                       Subtree(Get(by_id, PyInt(trace[j].interaction.data.id)))
        ELSE /\ trace[j].called = <<>>
             /\ trace[j].entered = <<>>
             /\ trace[j].signals = <<>>

\* with two commands bound, an event carrying the id of the group ran the
\* handler of a sub-command two levels below it, which raised
C34_Witness ==
    \E j \in 1..Len(trace) :
        /\ Len(by_id) >= 2
        /\ Dispatchable(trace[j].interaction)
        /\ Len(trace[j].entered) = 3
        /\ Len(trace[j].called) = 1
        /\ trace[j].called[1].node \notin Range(Values(by_id))
        /\ Len(trace[j].signals) = 1

\* C10: at most one synchronization is in flight at any time.
C10_AtMostOneInFlight == Cardinality({t \in Tasks : InFlight(t)}) <= 1

====
